---------------------------- MODULE Spec2Model ----------------------------
(***************************************************************************)
(* A model of bind-to-tinydns.c (version 0.4.2): the converter of a BIND   *)
(* zone file read from stdin into tinydns-data lines written to a temp     *)
(* file that is renamed to the output file at the end.                     *)
(*                                                                         *)
(* Text is modelled by TLA+ strings.  A character is a string of length 1, *)
(* the NUL byte is the empty string, and s[i] of the C code (0-based) is   *)
(* Ch(s, i+1).  The bytes of the model are the printable ASCII characters  *)
(* other than the backquote (which a TLA+ string cannot hold) and the      *)
(* control characters tab, newline and carriage return.                    *)
(* An unsigned int is a pair of 16-bit halves, so that the arithmetic of   *)
(* the code is computed modulo 2^32 without leaving TLC's integers.        *)
(***************************************************************************)
EXTENDS Integers, Sequences, FiniteSets, TLC

(***************************************************************************)
(* Program constants (#define)                                             *)
(***************************************************************************)
LINE_LEN == 8192
DOMAIN_LEN == 255
MAX_TOKENS == 32
MAX_PAREN == 3
MAX_GEN_PARTS == 10
DEFAULT_TTL == 86400
DOMAIN_STR_LEN == DOMAIN_LEN * 4 + 1

(***************************************************************************)
(* Characters                                                              *)
(***************************************************************************)
NUL == ""
Ch(s, i) == IF i >= 1 /\ i <= Len(s) THEN SubSeq(s, i, i) ELSE NUL
\* the text of s from 1-based position i on (the C pointer s + (i-1))
From(s, i) == IF i > Len(s) THEN "" ELSE SubSeq(s, i, Len(s))
Upto(s, n) == IF n <= 0 THEN "" ELSE IF n >= Len(s) THEN s ELSE SubSeq(s, 1, n)

\* the least element of a set of naturals; 0 for the empty set
LeastOr0(S) == IF S = {} THEN 0 ELSE CHOOSE k \in S : \A j \in S : k <= j
\* the 1-based position of the first occurrence of sub in s at or after p; 0 if none
IndexFrom(s, sub, p) ==
    LeastOr0({k \in p..(Len(s) - Len(sub) + 1) : SubSeq(s, k, k + Len(sub) - 1) = sub})
strstr(s, sub) == IndexFrom(s, sub, 1)
strchr(s, p, c) == IndexFrom(s, c, p)

\* the codes 32..95 and 97..126
AsciiLow == " !\"#$%&'()*+,-./0123456789:;<=>?@ABCDEFGHIJKLMNOPQRSTUVWXYZ[\\]^_"
AsciiHigh == "abcdefghijklmnopqrstuvwxyz{|}~"
Printables == {Ch(AsciiLow, i) : i \in 1..Len(AsciiLow)}
                 \cup {Ch(AsciiHigh, i) : i \in 1..Len(AsciiHigh)}

\* the code of c, k being its position in AsciiLow
OrdAt(c, k) ==
    IF k # 0 THEN 31 + k
    ELSE IF c = "\t" THEN 9 ELSE IF c = "\n" THEN 10 ELSE IF c = "\r" THEN 13
    ELSE 96 + IndexFrom(AsciiHigh, c, 1)
Ord(c) == OrdAt(c, IndexFrom(AsciiLow, c, 1))
\* the character of a code (the backquote, 96, is outside the model)
Chr(n) == IF n >= 32 /\ n <= 95 THEN Ch(AsciiLow, n - 31)
          ELSE IF n >= 97 /\ n <= 126 THEN Ch(AsciiHigh, n - 96)
          ELSE CHOOSE c \in {"\t", "\n", "\r"} : OrdAt(c, 0) = n

isdigit(c) == c \in {"0", "1", "2", "3", "4", "5", "6", "7", "8", "9"}
isprint(c) == c \in Printables
isprintCode(n) == n >= 32 /\ n <= 126
DigitVal(c) == IndexFrom("0123456789", c, 1) - 1
DigitChr(d) == Ch("0123456789abcdef", d + 1)
\* c, or the letter at position k of to when k is not 0
MapAt(c, k, to) == IF k = 0 THEN c ELSE Ch(to, k)
tolower(c) ==
    IF c = NUL THEN c
    ELSE MapAt(c, IndexFrom("ABCDEFGHIJKLMNOPQRSTUVWXYZ", c, 1), "abcdefghijklmnopqrstuvwxyz")

\* strcmp(a, b) == 0 and strcasecmp(a, b) == 0
StrEq(a, b) == a = b
StrCaseEq(a, b) ==
    /\ Len(a) = Len(b)
    /\ \A i \in 1..Len(a) : tolower(Ch(a, i)) = tolower(Ch(b, i))

RECURSIVE Repeat(_, _)
\* n copies of s (by halving, to keep the evaluation shallow)
Repeat(s, n) ==
    IF n <= 0 THEN "" ELSE IF n = 1 THEN s
    ELSE Repeat(s, n \div 2) \o Repeat(s, n - n \div 2)

(***************************************************************************)
(* unsigned int: 32 bits as two 16-bit halves                              *)
(***************************************************************************)
W16 == 256 * 256
U32(n) == [hi |-> n \div W16, lo |-> n % W16]          \* 0 <= n < 2^31
\* u * k modulo 2^32, for 0 <= k < 2^15
U32MulSmall(u, k) ==
    LET l == u.lo * k
    IN  [hi |-> (u.hi * k + l \div W16) % W16, lo |-> l % W16]
U32Add(u, v) ==
    LET l == u.lo + v.lo
    IN  [hi |-> (u.hi + v.hi + l \div W16) % W16, lo |-> l % W16]
U32Neg(u) == U32Add([hi |-> W16 - 1 - u.hi, lo |-> W16 - 1 - u.lo], U32(1))
U32Gt(u, v) == u.hi > v.hi \/ (u.hi = v.hi /\ u.lo > v.lo)
U32DivSmall(u, b) ==
    LET t == (u.hi % b) * W16 + u.lo
    IN  [q |-> [hi |-> u.hi \div b, lo |-> t \div b], r |-> t % b]
RECURSIVE U32Render(_, _)
\* the digits of u in base b (8, 10 or 16), lower case, no padding
U32Render(u, b) ==
    IF u.hi = 0 /\ u.lo < b THEN DigitChr(u.lo)
    ELSE U32Render(U32DivSmall(u, b).q, b) \o DigitChr(U32DivSmall(u, b).r)
\* printf's %u and %d of an unsigned int
FmtU(u) == U32Render(u, 10)
FmtD(u) == IF u.hi >= 32768 THEN "-" \o FmtU(U32Neg(u)) ELSE FmtU(u)
\* the constant 2147483646 of the range checks
TTL_MAX == [hi |-> 32767, lo |-> 65534]
\* printf's %d and "%03o" of a small non-negative int
Dec(n) == U32Render(U32(n), 10)
Pad3(s) == Repeat("0", 3 - Len(s)) \o s
Oct3(n) == Pad3(U32Render(U32(n), 8))
RECURSIVE toupperStr(_)
\* the digits of a %X conversion from those of %x
toupperStr(s) ==
    IF s = "" THEN ""
    ELSE MapAt(Ch(s, 1), IndexFrom("abcdef", Ch(s, 1), 1), "ABCDEF") \o toupperStr(From(s, 2))

(***************************************************************************)
(* struct string: text with its logical length len and stored length       *)
(* real_len                                                                *)
(***************************************************************************)
String(text, len, real_len) == [text |-> text, len |-> len, real_len |-> real_len]
Failed == [ok |-> FALSE]
Ok(v) == [ok |-> TRUE, val |-> v]

\* the write without "temp.len++"
SanPut_KeepsLen(temp, piece, stored) ==
    String(Upto(temp.text, temp.real_len) \o piece, temp.len, temp.real_len + stored)

\* a write of piece at temp.text + temp.real_len, counting one logical
\* character and stored stored bytes
SanPut(temp, piece, stored) ==
    String(Upto(temp.text, temp.real_len) \o piece, temp.len + 1, temp.real_len + stored)

\* sanitize_string's loop state: src is read at 1-based position p, temp
\* is the string built, res is "run", "ok" (the loop ended) or "fail"
\* (return 1)
SanAt(p, temp) == [p |-> p, temp |-> temp, res |-> "run"]
SanFail(st) == [st EXCEPT !.res = "fail"]

\* the \DDD branch with "temp.real_len++" after the octal escape too
SanDecimal_CountsOne(st, num) ==
    IF num > 255 THEN SanFail(st)
    ELSE IF isprintCode(num) /\ num # 58 /\ num # 46 /\ num # 92
        THEN SanAt(st.p + 4, SanPut(st.temp, Chr(num), 1))
    ELSE SanAt(st.p + 4, SanPut(st.temp, "\\" \o Oct3(num), 1))

\* the \DDD branch: num is the three digits read as a decimal number
SanDecimal(st, num) ==
    IF num > 255 THEN SanFail(st)
    ELSE IF isprintCode(num) /\ num # 58 /\ num # 46 /\ num # 92    \* ':' '.' '\\'
        THEN SanAt(st.p + 4, SanPut(st.temp, Chr(num), 1))
    ELSE SanAt(st.p + 4, SanPut(st.temp, "\\" \o Oct3(num), 4))

\* one pass of the for loop of sanitize_string
SanStep(src, st) ==
    LET p == st.p
        temp == st.temp
        c  == Ch(src, p)
        c1 == Ch(src, p + 1)
        c2 == Ch(src, p + 2)
        c3 == Ch(src, p + 3)
    IN  IF st.res # "run" THEN st
        ELSE IF c = NUL THEN [st EXCEPT !.res = "ok"]
        ELSE IF temp.len = DOMAIN_LEN THEN SanFail(st)
        ELSE IF isprint(c) /\ c # "\\" /\ c # ":"
            THEN SanAt(p + 1, SanPut(temp, c, 1))
        ELSE IF c = "\\"
            THEN IF c1 = NUL THEN SanFail(st)
                 ELSE IF ~isdigit(c1)
                     THEN IF c1 = ":" \/ c1 = "\\" \/ c1 = "." \/ ~isprint(c1)
                          THEN SanAt(p + 2, SanPut(temp, "\\" \o Oct3(Ord(c1)), 4))
                          ELSE SanAt(p + 2, SanPut(temp, c1, 1))
                 ELSE IF c2 # NUL /\ c3 # NUL /\ isdigit(c2) /\ isdigit(c3)
                     THEN SanDecimal(st, DigitVal(c1) * 100 + DigitVal(c2) * 10 + DigitVal(c3))
                 ELSE SanFail(st)
        ELSE SanAt(p + 1, SanPut(temp, "\\" \o Oct3(Ord(c)), 4))

RECURSIVE SanTimes(_, _, _)
\* k passes of the loop, stopping at the return (by halving, to keep the
\* evaluation shallow)
SanTimes(src, st, k) ==
    IF k <= 0 \/ st.res # "run" THEN st ELSE IF k = 1 THEN SanStep(src, st)
    ELSE SanTimes(src, SanTimes(src, st, k \div 2), k - k \div 2)

\* the return of sanitize_string from the state its loop ended in
SanResult(st) == IF st.res = "ok" THEN Ok(st.temp) ELSE Failed

\* sanitize_string(dest, src): Ok(the string copied to dest) or Failed
\* (dest untouched)
sanitize_string(src) ==
    SanResult(SanTimes(src, SanAt(1, String("", 0, 0)), Len(src) + 1))

\* the join that leaves the dot out
QualJoin_NoDot(sname, tail, len, real_len) ==
    String(Upto(sname.text, sname.real_len) \o tail,
           sname.len + 1 + len, sname.real_len + 1 + real_len)

\* temp after "temp.text[sname.real_len] = '.'; strcpy (temp.text +
\* sname.real_len + 1, tail)" and the two length updates
QualJoin(sname, tail, len, real_len) ==
    String(Upto(sname.text, sname.real_len) \o "." \o tail,
           sname.len + 1 + len, sname.real_len + 1 + real_len)

\* qualify_domain after "sanitize_string (&sname, name)" left sname
QualifyName(sname, origin) ==
    IF sname.len # 0
    THEN IF Ch(sname.text, 1) = "." /\ Ch(sname.text, 2) # NUL THEN Failed
         ELSE IF strstr(sname.text, "..") # 0 THEN Failed
         ELSE IF Ch(sname.text, 1) = "@" /\ Ch(sname.text, 2) = NUL
             THEN IF origin.len = 0 THEN Failed ELSE Ok(origin)
         ELSE IF Ch(sname.text, sname.real_len) = "." THEN Ok(sname)
         ELSE IF origin.len = 0 THEN Failed
         ELSE IF Ch(origin.text, 1) = "." /\ Ch(origin.text, 2) = NUL
             THEN IF sname.len + 1 > DOMAIN_LEN THEN Failed
                  ELSE Ok(QualJoin(sname, "", 0, 0))
         ELSE IF sname.len + 1 + origin.len > DOMAIN_LEN THEN Failed
         ELSE Ok(QualJoin(sname, origin.text, origin.len, origin.real_len))
    ELSE IF origin.len = 0 THEN Failed ELSE Ok(origin)

\* qualify_domain from the result s of its call of sanitize_string
QualifySanitized(s, origin) == IF ~s.ok THEN Failed ELSE QualifyName(s.val, origin)

\* qualify_domain(dest, name, origin): Ok(the string copied to dest) or
\* Failed (dest untouched).  origin is never NULL in this program.
qualify_domain(name, origin) == QualifySanitized(sanitize_string(name), origin)

(***************************************************************************)
(* str_to_uint                                                             *)
(***************************************************************************)
\* the unit letters in lower case only
UnitFactors_LowerOnly(c) ==
    IF      c = "w" THEN <<2700, 32, 7>>
    ELSE IF c = "d" THEN <<2700, 32, 1>>
    ELSE IF c = "h" THEN <<60, 60, 1>>
    ELSE IF c = "m" THEN <<60, 1, 1>>
    ELSE IF c = "s" THEN <<1, 1, 1>>
    ELSE <<>>

\* the multiplier of the unit letter c as factors below 2^15; <<>> for any
\* other letter
UnitFactors(c) ==
    IF      c \in {"w", "W"} THEN <<2700, 32, 7>>       \* 604800
    ELSE IF c \in {"d", "D"} THEN <<2700, 32, 1>>       \* 86400
    ELSE IF c \in {"h", "H"} THEN <<60, 60, 1>>         \* 3600
    ELSE IF c \in {"m", "M"} THEN <<60, 1, 1>>
    ELSE IF c \in {"s", "S"} THEN <<1, 1, 1>>
    ELSE <<>>
\* part times the factors f
TimesFactors(part, f) ==
    IF f = <<>> THEN Failed
    ELSE Ok(U32MulSmall(U32MulSmall(U32MulSmall(part, f[1]), f[2]), f[3]))

RECURSIVE StrToUintLoop(_, _, _, _)
\* the unit letter branch of the loop: t is part times the unit
StrToUintUnit(src, p, allow_time_fmt, st, t) ==
    IF ~t.ok THEN Failed
    ELSE StrToUintLoop(src, p + 1, allow_time_fmt,
            [in_time_fmt |-> TRUE, in_part |-> FALSE,
             total |-> U32Add(st.total, t.val), part |-> U32(0)])

\* the for loop of str_to_uint; st holds in_time_fmt, in_part, total, part
StrToUintLoop(src, p, allow_time_fmt, st) ==
    LET c == Ch(src, p)
    IN  IF c = NUL
        THEN IF st.in_time_fmt /\ st.in_part THEN Failed
             ELSE Ok(IF ~st.in_time_fmt THEN st.part ELSE st.total)
        ELSE IF isdigit(c)
            THEN StrToUintLoop(src, p + 1, allow_time_fmt,
                    [st EXCEPT !.in_part = TRUE,
                               !.part = U32Add(U32MulSmall(st.part, 10), U32(DigitVal(c)))])
        ELSE IF ~allow_time_fmt \/ ~st.in_part THEN Failed
        ELSE StrToUintUnit(src, p, allow_time_fmt, st, TimesFactors(st.part, UnitFactors(c)))

\* str_to_uint(dest, src, allow_time_fmt): Ok(the value stored in *dest) or
\* Failed (*dest untouched)
str_to_uint(src, allow_time_fmt) ==
    IF src = "" THEN Failed
    ELSE StrToUintLoop(src, 1, allow_time_fmt,
            [in_time_fmt |-> FALSE, in_part |-> FALSE, total |-> U32(0), part |-> U32(0)])

(***************************************************************************)
(* sanitize_ip                                                             *)
(***************************************************************************)
RECURSIVE IpGroup(_, _, _, _)
\* "for (total = 0; src < dot; src++)": the int total of the digits of src
\* in positions p .. dot-1, wrapping at 32 bits; Failed on a non-digit
IpGroup(src, p, dot, total) ==
    IF p >= dot THEN Ok(total)
    ELSE IF ~isdigit(Ch(src, p)) THEN Failed
    ELSE IpGroup(src, p + 1, dot, U32Add(U32MulSmall(total, 10), U32(DigitVal(Ch(src, p)))))

RECURSIVE IpLoop(_, _, _, _)
\* the end of a pass of the loop: g is the value of the group that ends
\* before position found
IpStore(src, i, found, dest, g) ==
    IF ~g.ok THEN Failed
    \* "total > 255" on an int: false for a value that wrapped negative
    ELSE IF g.val.hi < 32768 /\ U32Gt(g.val, U32(255)) THEN Failed
    ELSE IpLoop(src, i + 1, found + 1, dest \o FmtD(g.val) \o (IF i < 3 THEN "." ELSE ""))

\* a pass of the loop from "dot = strchr (src, '.')" (the end of src for
\* the last group) on
IpPass(src, i, p, dest, found) ==
    IF found = 0 \/ found = p THEN Failed
    ELSE IpStore(src, i, found, dest, IpGroup(src, p, found, U32(0)))

\* the for loop of sanitize_ip: group i starts at position p; dest is the
\* text written so far
IpLoop(src, i, p, dest) ==
    IF i = 4 THEN Ok(dest)
    ELSE IpPass(src, i, p, dest, IF i < 3 THEN strchr(src, p, ".") ELSE Len(src) + 1)

\* sanitize_ip(dest, src): Ok(the text left in dest) or Failed
sanitize_ip(src) == IpLoop(src, 0, 1, "")

\* INT_MAX, and the undefined behaviour of sanitize_ip: "total *= 10;
\* total += *src - '0'" leaves the range of int while group i, read from
\* position p on with the value total so far, is converted
INT_MAX == 2147483647
RECURSIVE IpOverflow(_, _, _, _)
IpOverflow(src, i, p, total) ==
    IF p > Len(src) THEN FALSE
    ELSE IF Ch(src, p) = "." /\ i < 3
        THEN IF total > 255 \/ Ch(src, p - 1) \in {NUL, "."} THEN FALSE    \* return 1
             ELSE IpOverflow(src, i + 1, p + 1, 0)
    ELSE IF ~isdigit(Ch(src, p)) THEN FALSE
    ELSE IF i < 3 /\ strchr(src, p, ".") = 0 THEN FALSE
    ELSE IF total > (INT_MAX - DigitVal(Ch(src, p))) \div 10 THEN TRUE
    ELSE IpOverflow(src, i, p + 1, total * 10 + DigitVal(Ch(src, p)))

\* what a call of sanitize_ip can return: after an overflow of total the
\* value that wrapped is one outcome, and the call may as well fail
IpOutcomes(src) ==
    IF IpOverflow(src, 0, 1, 0) THEN {sanitize_ip(src), Failed} ELSE {sanitize_ip(src)}

(***************************************************************************)
(* tokenize                                                                *)
(*                                                                         *)
(* The static buffer line is a sequence of characters (NUL included) that  *)
(* keeps what earlier entries left in it.  A token slot is uninitialised,  *)
(* blank_token, or a pointer line + off.                                   *)
(***************************************************************************)
Uninit == [kind |-> "uninit", off |-> 0]
BlankToken == [kind |-> "blank", off |-> 0]
LinePtr(off) == [kind |-> "line", off |-> off]

\* line[i] (0-based); the static buffer is zero-initialised
LineAt(buf, i) == IF i + 1 <= Len(buf) THEN buf[i + 1] ELSE NUL
RECURSIVE Join(_, _, _)
\* the characters buf[lo..hi] as a string
Join(buf, lo, hi) ==
    IF lo > hi THEN "" ELSE IF lo = hi THEN buf[lo]
    ELSE Join(buf, lo, (lo + hi) \div 2) \o Join(buf, (lo + hi) \div 2 + 1, hi)
\* the C string at line + off
CStr(buf, off) ==
    Join(buf, off + 1, LeastOr0({k \in (off + 1)..(Len(buf) + 1) : LineAt(buf, k - 1) = NUL}) - 1)
\* the text a token slot points to; garbage for an uninitialised slot
TokenText(buf, slot, garbage) ==
    IF slot.kind = "blank" THEN " "
    ELSE IF slot.kind = "line" THEN CStr(buf, slot.off)
    ELSE garbage

\* the first k characters of the input read, the rest left
FgetsTake(input, k) == [null |-> FALSE, chunk |-> Upto(input, k), rest |-> From(input, k + 1)]
\* fgets reading up to position upto, at most n-1 characters
FgetsUpTo(input, n, upto) == FgetsTake(input, IF upto < n - 1 THEN upto ELSE n - 1)
\* fgets stopping after the newline at position nl (0: there is none)
FgetsLine(input, n, nl) == FgetsUpTo(input, n, IF nl = 0 THEN Len(input) ELSE nl)
\* fgets (buf, n, stdin) on the rest of the input: NULL at end of input,
\* otherwise the characters read (at most n-1, through the first newline)
Fgets(input, n) ==
    IF n <= 1 THEN [null |-> FALSE, chunk |-> "", rest |-> input]
    ELSE IF input = "" THEN [null |-> TRUE, chunk |-> "", rest |-> input]
    ELSE FgetsLine(input, n, strchr(input, 1, "\n"))

\* the buffer after fgets stored chunk and its NUL at line + i
StoreAt(buf, i, chunk) ==
    LET end == i + Len(chunk) + 1
        n == IF Len(buf) > end THEN Len(buf) ELSE end
    IN  [k \in 1..n |-> IF k <= i THEN LineAt(buf, k - 1)
                        ELSE IF k < end THEN Ch(chunk, k - i)
                        ELSE IF k = end THEN NUL
                        ELSE buf[k]]

\* the locals of tokenize at its start
TkInit == [i |-> 0, in_doublequote |-> FALSE, paren_level |-> 0, in_quote |-> FALSE,
           set_in_quote |-> FALSE, in_txt |-> FALSE, num_tokens |-> 0,
           in_token |-> FALSE, found_nonblank_token |-> FALSE, started |-> FALSE]

\* token[k] = slot; a slot at or beyond MAX_TOKENS is outside the array
\* (undefined behaviour: the model lets the write land and flags it)
SetToken(s, k, slot) ==
    [s EXCEPT !.token = [j \in 1..(IF Len(@) > k + 1 THEN Len(@) ELSE k + 1) |->
                            IF j = k + 1 THEN slot
                            ELSE IF j <= Len(@) THEN @[j] ELSE Uninit],
              !.ub = @ \/ k >= MAX_TOKENS]
ScanFatal(s, msg) == [s EXCEPT !.fatal = msg]
PutNul(s) == [s EXCEPT !.line[s.tk.i + 1] = NUL]

\* the if/else-if chain of the for loop's body on the delimiter-significant
\* character c = line[i]; brk is set by the break of the comment branch
ScanChar(s, c) ==
    LET t == s.tk
        z == PutNul(s)
        endTok == [z EXCEPT !.tk.in_token = FALSE]
        n == t.num_tokens
    IN  IF c = ";" THEN [endTok EXCEPT !.brk = TRUE]
        ELSE IF c = "("
            THEN IF t.paren_level + 1 > MAX_PAREN
                 THEN ScanFatal([endTok EXCEPT !.tk.paren_level = @ + 1],
                                "too many nested parentheses")
                 ELSE [endTok EXCEPT !.tk.paren_level = @ + 1]
        ELSE IF c = ")"
            THEN IF t.paren_level - 1 < 0
                 THEN ScanFatal([endTok EXCEPT !.tk.paren_level = @ - 1],
                                "missing opening parenthesis")
                 ELSE [endTok EXCEPT !.tk.paren_level = @ - 1]
        ELSE IF c = "\""
            THEN IF t.in_doublequote
                 THEN [endTok EXCEPT !.tk.in_doublequote = FALSE]
                 ELSE IF ~t.in_txt /\ (n = 0 \/ ~StrCaseEq(TokenText(z.line, z.token[n], ""), "txt"))
                     THEN ScanFatal(z, "improper use of double-quotes (can only be used for TXT rdata)")
                 ELSE [SetToken(z, n, LinePtr(t.i + 1)) EXCEPT
                          !.tk.in_txt = TRUE, !.tk.num_tokens = n + 1,
                          !.tk.in_token = TRUE, !.tk.in_doublequote = TRUE]
        ELSE IF c = " " \/ c = "\t"
            THEN IF t.i = 0
                 THEN [SetToken(s, n, BlankToken) EXCEPT !.tk.num_tokens = n + 1]
                 ELSE endTok
        ELSE IF c = "\n" \/ c = "\r" THEN endTok
        ELSE IF ~t.in_token
            THEN IF n >= MAX_TOKENS THEN ScanFatal(s, "too many tokens in RR")
                 ELSE [SetToken(s, n, LinePtr(t.i)) EXCEPT
                          !.tk.in_token = TRUE, !.tk.num_tokens = n + 1,
                          !.tk.found_nonblank_token = TRUE]
        ELSE s

\* "if (set_in_quote) { in_quote = 1; set_in_quote = 0; }"
Arm(s) == IF s.tk.set_in_quote
          THEN [s EXCEPT !.tk.in_quote = TRUE, !.tk.set_in_quote = FALSE] ELSE s
\* i++
Advance(s) == [s EXCEPT !.tk.i = @ + 1]
\* after the if/else-if chain: fatal() and break leave the loop
ScanEnd(r) == IF r.fatal # "" \/ r.brk THEN [r EXCEPT !.done = TRUE] ELSE Advance(r)
\* from "if (in_doublequote && line[i] != '"') continue;" on
ScanSignificant(s, c) ==
    IF s.tk.in_doublequote /\ c # "\"" THEN Advance(s) ELSE ScanEnd(ScanChar(s, c))
\* the backslash test, a being the state after Arm
ScanArmed(a, c) ==
    IF ~(c = "\\" /\ ~a.tk.in_quote) /\ a.tk.in_quote /\ c # "\n"
    THEN Advance([a EXCEPT !.tk.in_quote = FALSE])
    ELSE ScanSignificant(IF c = "\\" /\ ~a.tk.in_quote
                         THEN [a EXCEPT !.tk.set_in_quote = TRUE] ELSE a, c)
\* the loop test and the body on c = line[i]
ScanRead(s, c) ==
    IF c = NUL THEN [s EXCEPT !.done = TRUE]
    ELSE IF s.tk.i = LINE_LEN THEN [ScanFatal(s, "entry too long") EXCEPT !.done = TRUE]
    ELSE ScanArmed(Arm(s), c)
\* one pass of "for (; line[i] != '\0'; i++)": s holds line, token, the
\* locals tk, the message of a fatal call ("" for none), and done once the
\* loop is left
ScanStep(s) == IF s.done THEN s ELSE ScanRead(s, LineAt(s.line, s.tk.i))

RECURSIVE ScanTimes(_, _)
\* k passes of the loop, stopping once it is left (by halving, to keep the
\* evaluation shallow)
ScanTimes(s, k) ==
    IF k <= 0 \/ s.done THEN s ELSE IF k = 1 THEN ScanStep(s)
    ELSE ScanTimes(ScanTimes(s, k \div 2), k - k \div 2)

\* one pass of the do loop of tokenize after a successful fgets
ScanChunk(buf, token, tk, chunk) ==
    ScanTimes([line |-> StoreAt(buf, tk.i, chunk), token |-> token, tk |-> tk,
               fatal |-> "", brk |-> FALSE, ub |-> FALSE, done |-> FALSE],
              Len(chunk) + 1)

(***************************************************************************)
(* $GENERATE: parse_gen_string and construct_gen_output                    *)
(***************************************************************************)
RECURSIVE ReadDigits(_, _, _, _)
\* "for (found = 0; s[p] >= '0' && s[p] <= '9'; p++) v = v * 10 + digit":
\* the value, whether a digit was found, and the position reached
ReadDigits(s, p, v, found) ==
    IF isdigit(Ch(s, p)) THEN ReadDigits(s, p + 1, v * 10 + DigitVal(Ch(s, p)), TRUE)
    ELSE [val |-> v, found |-> found, p |-> p]

\* a literal part (a pointer into the line) and a substitution part
\* (parts[k] == NULL with its offsets[k], widths[k], bases[k])
LitPart(start) == [lit |-> TRUE, start |-> start, offset |-> 0, width |-> 0, base |-> "d"]
SlotPart(offset, width, base) ==
    [lit |-> FALSE, start |-> 0, offset |-> offset, width |-> width, base |-> base]

\* the part list after "*ptr = '\0'" at a '$' in position p: the slot
\* replaces a literal part that starts at p, or is appended
GenAddSlot(parts, p) ==
    IF parts[Len(parts)].lit /\ parts[Len(parts)].start = p
    THEN [parts EXCEPT ![Len(parts)] = SlotPart(0, 0, "d")]
    ELSE Append(parts, SlotPart(0, 0, "d"))

\* the curly braces from the width on: w is the width read, and w.p the
\* position after its digits
GenWidth(line, offset, w) ==
    LET b == Ch(line, w.p + 1)
    IN  IF ~w.found \/ (Ch(line, w.p) # "," /\ Ch(line, w.p) # "}")
        THEN [fatal |-> "parse error in $GENERATE curly braces (at width)"]
        ELSE IF Ch(line, w.p) = "}"
            THEN [fatal |-> "", slot |-> SlotPart(offset, w.val, "d"), p |-> w.p]
        ELSE IF b \notin {"d", "o", "x", "X"}
            THEN [fatal |-> "$GENERATE has invalid base"]
        ELSE IF Ch(line, w.p + 2) # "}"
            THEN [fatal |-> "parse error in $GENERATE (curly braces not closed after base)"]
        ELSE [fatal |-> "", slot |-> SlotPart(offset, w.val, b), p |-> w.p + 2]

\* the curly braces from the offset on: o is the number read after the
\* sign, and o.p the position after its digits
GenOffset(line, neg, o) ==
    IF ~o.found \/ (Ch(line, o.p) # "," /\ Ch(line, o.p) # "}")
    THEN [fatal |-> "parse error in $GENERATE curly braces (at offset)"]
    ELSE IF Ch(line, o.p) = "}"
        THEN [fatal |-> "", slot |-> SlotPart(IF neg THEN 0 - o.val ELSE o.val, 0, "d"),
              p |-> o.p]
    ELSE GenWidth(line, IF neg THEN 0 - o.val ELSE o.val,
                  ReadDigits(line, o.p + 1, 0, FALSE))

\* the curly braces after a '$' at position p: the slot read and the
\* position of the closing brace, or the message of the fatal call
GenBraces(line, p) ==
    GenOffset(line, Ch(line, p + 2) = "-",
              ReadDigits(line, IF Ch(line, p + 2) = "-" THEN p + 3 ELSE p + 2, 0, FALSE))

RECURSIVE GenParseLoop(_, _, _, _, _)
\* PARSE_GEN_STRING_DONE: ptr is at position q, slotted are the parts
GenDone(line, p, slotted, nuls, q) ==
    IF Ch(line, q + 1) # NUL /\ Len(slotted) >= MAX_GEN_PARTS
    THEN [fatal |-> "$GENERATE directive has too many parts"]
    ELSE GenParseLoop(line, q + 1, FALSE,
                      IF Ch(line, q + 1) # NUL THEN Append(slotted, LitPart(q + 1))
                      ELSE slotted,
                      nuls \cup {p})

\* a '$' at position p that starts a slot: added are the parts with the
\* new slot, br what the curly braces gave
GenSlot(line, p, added, nuls, br) ==
    IF br.fatal # "" THEN [fatal |-> br.fatal]
    ELSE GenDone(line, p, [added EXCEPT ![Len(added)] = br.slot], nuls, br.p)

\* the for loop of parse_gen_string with ptr at position p; nuls are the
\* positions where a NUL was stored
GenParseLoop(line, p, in_quote, parts, nuls) ==
    LET c == Ch(line, p)
    IN  IF c = NUL THEN [fatal |-> "", parts |-> parts, nuls |-> nuls]
        ELSE IF in_quote THEN GenParseLoop(line, p + 1, FALSE, parts, nuls)
        ELSE IF c = "\\" THEN GenParseLoop(line, p + 1, TRUE, parts, nuls)
        ELSE IF c # "$" THEN GenParseLoop(line, p + 1, FALSE, parts, nuls)
        ELSE IF Ch(line, p + 1) = "$" THEN GenParseLoop(line, p + 2, FALSE, parts, nuls)
        ELSE IF Len(parts) >= MAX_GEN_PARTS
            THEN [fatal |-> "$GENERATE directive has too many parts"]
        ELSE GenSlot(line, p, GenAddSlot(parts, p), nuls,
                     IF Ch(line, p + 1) = "{" THEN GenBraces(line, p)
                     ELSE [fatal |-> "", slot |-> SlotPart(0, 0, "d"), p |-> p])

\* the text of a literal part: from its start to the next stored NUL
\* (after: the positions of the NULs from start on)
GenLitUpTo(line, start, after) ==
    IF after = {} THEN From(line, start)
    ELSE SubSeq(line, start, LeastOr0(after) - 1)
GenLitText(line, start, nuls) == GenLitUpTo(line, start, {k \in nuls : k >= start})

\* the parts as construct_gen_output reads them: a literal part with its
\* text
GenParsed(line, r) ==
    IF r.fatal # "" THEN r
    ELSE [fatal |-> "",
          parts |-> [k \in 1..Len(r.parts) |->
                       IF r.parts[k].lit
                       THEN [r.parts[k] EXCEPT !.start = 0] @@
                            [text |-> GenLitText(line, r.parts[k].start, r.nuls)]
                       ELSE r.parts[k] @@ [text |-> ""]]]

\* parse_gen_string on a copy of the token: the parts, or the message of
\* the fatal call
parse_gen_string(line) == GenParsed(line, GenParseLoop(line, 1, FALSE, <<LitPart(1)>>, {}))

\* the digits of the unsigned conversions %o, %x and %X
GenDigits(u, base) ==
    IF base = "o" THEN U32Render(u, 8)
    ELSE IF base = "x" THEN U32Render(u, 16)
    ELSE toupperStr(U32Render(u, 16))
\* the zero padding of the 0 flag to the field width
GenPad(sign, width, digits) ==
    sign \o Repeat("0", width - Len(sign) - Len(digits)) \o digits
\* snprintf with the format "%0<width><base>" of the int v
GenFormat(v, width, base) ==
    GenPad(IF base = "d" /\ v < 0 THEN "-" ELSE "", width,
           IF base = "d" THEN Dec(IF v >= 0 THEN v ELSE 0 - v)
           ELSE GenDigits(IF v >= 0 THEN U32(v) ELSE U32Neg(U32(0 - v)), base))

RECURSIVE GenConcat(_, _, _)
\* what the snprintf calls of parts k.. would write given room
GenConcat(parts, k, iter) ==
    IF k > Len(parts) THEN ""
    ELSE (IF parts[k].lit THEN parts[k].text
          ELSE GenFormat(iter + parts[k].offset, parts[k].width, parts[k].base))
         \o GenConcat(parts, k + 1, iter)

\* dest after the loop, or fatal when a part would end beyond dest +
\* DOMAIN_STR_LEN
GenOutput(full) ==
    IF Len(full) > DOMAIN_STR_LEN
    THEN [fatal |-> "$GENERATE directive constructed a token that was too long"]
    ELSE [fatal |-> "", str |-> Upto(full, DOMAIN_STR_LEN - 1)]

\* construct_gen_output: the string left in dest, or the message of the
\* fatal call
construct_gen_output(parts, iter) == GenOutput(GenConcat(parts, 1, iter))

\* the range token from the step on: c is the number read after the '/'
GenStep(t, start, stop, c) ==
    IF ~c.found \/ Ch(t, c.p) # NUL \/ c.val = 0
    THEN [fatal |-> "$GENERATE directive has invalid range (unable to parse step)"]
    ELSE [fatal |-> "", start |-> start, stop |-> stop, step |-> c.val]
\* the range token from the stop on: b is the number read after the '-'
GenStop(t, start, b) ==
    IF ~b.found \/ (Ch(t, b.p) # NUL /\ Ch(t, b.p) # "/")
    THEN [fatal |-> "$GENERATE directive has invalid range (unable to parse stop)"]
    ELSE IF Ch(t, b.p) = "/"
        THEN GenStep(t, start, b.val, ReadDigits(t, b.p + 1, 0, FALSE))
    ELSE [fatal |-> "", start |-> start, stop |-> b.val, step |-> 1]
\* the range token from its first number a on
GenStart(t, a) ==
    IF ~a.found \/ Ch(t, a.p) # "-"
    THEN [fatal |-> "$GENERATE directive has invalid range (unable to parse start)"]
    ELSE GenStop(t, a.val, ReadDigits(t, a.p + 1, 0, FALSE))
\* the range token of $GENERATE: start-stop or start-stop/step
GenRange(t) == GenStart(t, ReadDigits(t, 1, 0, FALSE))

(***************************************************************************)
(* handle_entry                                                            *)
(*                                                                         *)
(* cx is the state handle_entry works on: cur_origin, origin (the top      *)
(* origin), ttl, the statics owner and prev_owner, the text written to the *)
(* temp file (out: one element per record written), the diagnostics of     *)
(* warning() and fatal() raised by tokenize, handle_entry and the          *)
(* $GENERATE helpers (err), whether fatal() was called, and whether a      *)
(* token outside the entry was read (ub).  log is the history of the calls *)
(* of handle_entry, kept for the properties.                               *)
(***************************************************************************)
CxFatal(cx, msg) == [cx EXCEPT !.fatal = TRUE, !.err = Append(@, <<"fatal", msg>>)]
CxWarn(cx, msg) == [cx EXCEPT !.err = Append(@, <<"warning", msg>>)]
CxWrite(cx, text) == [cx EXCEPT !.out = Append(@, text)]

\* token[k] of an entry whose token array holds toks; a slot the array
\* does not have holds garbage
TokAt(toks, k, garbage) == IF k + 1 <= Len(toks) THEN toks[k + 1] ELSE garbage

\* the out-of-zone test of handle_entry
OutOfZone(top, owner) ==
    \/ top.real_len > owner.real_len
    \/ ~StrCaseEq(top.text, From(owner.text, owner.real_len - top.real_len + 1))
    \/ (owner.real_len > top.real_len
        /\ Ch(owner.text, owner.real_len - top.real_len) # ".")

\* the prefix without the TTL after the class: "IN" is followed by the type
PrefixFrom_ClassLast(toks, garbage, ttl, p1, p2) ==
    IF p1.ok
    THEN [next |-> IF StrCaseEq(TokAt(toks, 2, garbage), "IN") THEN 3 ELSE 2,
          local_ttl |-> IF U32Gt(p1.val, TTL_MAX) THEN ttl ELSE p1.val,
          warn |-> U32Gt(p1.val, TTL_MAX)]
    ELSE IF StrCaseEq(TokAt(toks, 1, garbage), "IN")
        THEN [next |-> 2, local_ttl |-> ttl, warn |-> FALSE]
    ELSE [next |-> 1, local_ttl |-> ttl, warn |-> FALSE]

\* the TTL/class prefix from the results p1 and p2 of str_to_uint on
\* token[1] and token[2]
PrefixFrom(toks, garbage, ttl, p1, p2) ==
    IF p1.ok
    THEN [next |-> IF StrCaseEq(TokAt(toks, 2, garbage), "IN") THEN 3 ELSE 2,
          local_ttl |-> IF U32Gt(p1.val, TTL_MAX) THEN ttl ELSE p1.val,
          warn |-> U32Gt(p1.val, TTL_MAX)]
    ELSE IF StrCaseEq(TokAt(toks, 1, garbage), "IN")
        THEN IF p2.ok
             THEN [next |-> 3,
                   local_ttl |-> IF U32Gt(p2.val, TTL_MAX) THEN ttl ELSE p2.val,
                   warn |-> U32Gt(p2.val, TTL_MAX)]
             ELSE [next |-> 2, local_ttl |-> ttl, warn |-> FALSE]
    ELSE [next |-> 1, local_ttl |-> ttl, warn |-> FALSE]

\* the TTL/class prefix of a record: the index next of the type token, the
\* record's TTL, and whether "invalid TTL in RR" was warned
RecordPrefix(toks, garbage, ttl) ==
    PrefixFrom(toks, garbage, ttl, str_to_uint(TokAt(toks, 1, garbage), TRUE),
               str_to_uint(TokAt(toks, 2, garbage), TRUE))

\* "str_to_uint (...) || value > max" from the result r of str_to_uint
RangeChecked(r, max) == IF r.ok /\ ~U32Gt(r.val, max) THEN r ELSE Failed
\* a range-checked numeric field
NumField(t, allow_time_fmt, max) == RangeChecked(str_to_uint(t, allow_time_fmt), max)

\* the $TTL branch from the result r of the conversion on, the fallback
\* left out: a value that does not parse or is out of range leaves the
\* previous default in place
TtlKeep(cx, r) ==
    IF r.ok THEN [cx EXCEPT !.ttl = r.val]
    ELSE CxWarn(cx, "invalid $TTL value; using default instead")
HandleTtl_KeepsPrevious(cx, n, toks, garbage) ==
    IF n # 2 THEN [CxWarn(cx, "$TTL directive has wrong number of arguments")
                      EXCEPT !.ttl = U32(DEFAULT_TTL)]
    ELSE TtlKeep(cx, NumField(TokAt(toks, 1, garbage), TRUE, TTL_MAX))

\* the $TTL branch from the result r of "str_to_uint (ttl, token[1], 1) ||
\* *ttl > 2147483646" on
TtlSet(cx, r) ==
    IF r.ok THEN [cx EXCEPT !.ttl = r.val]
    ELSE [CxWarn(cx, "invalid $TTL value; using default instead")
             EXCEPT !.ttl = U32(DEFAULT_TTL)]
\* the $TTL branch
HandleTtl(cx, n, toks, garbage) ==
    IF n # 2 THEN [CxWarn(cx, "$TTL directive has wrong number of arguments")
                      EXCEPT !.ttl = U32(DEFAULT_TTL)]
    ELSE TtlSet(cx, NumField(TokAt(toks, 1, garbage), TRUE, TTL_MAX))

\* the $ORIGIN branch from the result q of qualify_domain on
OriginSet(cx, q) ==
    IF ~q.ok THEN CxFatal(cx, "choked on domain name in $ORIGIN statement")
    ELSE [cx EXCEPT !.cur_origin = q.val]
\* the $ORIGIN branch with any number of tokens accepted
HandleOrigin_AnyArity(cx, n, toks, garbage) ==
    OriginSet(cx, qualify_domain(TokAt(toks, 1, garbage), cx.cur_origin))
\* the $ORIGIN branch
HandleOrigin(cx, n, toks, garbage) ==
    IF n # 2 THEN CxFatal(cx, "$ORIGIN directive has wrong number of arguments")
    ELSE OriginSet(cx, qualify_domain(TokAt(toks, 1, garbage), cx.cur_origin))

\* the RR type of the type token: the branch of the strcasecmp chain taken
\* ("" for the final else)
RRType(ty) ==
    IF      StrCaseEq(ty, "SOA")   THEN "SOA"
    ELSE IF StrCaseEq(ty, "NS")    THEN "NS"
    ELSE IF StrCaseEq(ty, "MX")    THEN "MX"
    ELSE IF StrCaseEq(ty, "A")     THEN "A"
    ELSE IF StrCaseEq(ty, "CNAME") THEN "CNAME"
    ELSE IF StrCaseEq(ty, "PTR")   THEN "PTR"
    ELSE IF StrCaseEq(ty, "TXT")   THEN "TXT"
    ELSE IF StrCaseEq(ty, "SRV")   THEN "SRV"
    ELSE ""

\* the message of the fatal call for count = num_tokens - next - 1 RDATA
\* tokens in a record of the type; "" when the count is accepted
CountError(type, count) ==
    IF type = "SOA"
    THEN IF count = 2
         THEN "wrong number of tokens in SOA RDATA (perhaps an opening parenthesis is on the next line instead of this one?)"
         ELSE IF count # 7 THEN "wrong number of tokens in SOA RDATA" ELSE ""
    ELSE IF type = "MX" THEN IF count # 2 THEN "wrong number of tokens in MX RDATA" ELSE ""
    ELSE IF type = "TXT" THEN IF count < 1 THEN "too few tokens in TXT RDATA" ELSE ""
    ELSE IF type = "SRV" THEN IF count # 4 THEN "wrong number of tokens in SRV RDATA" ELSE ""
    ELSE IF count # 1 THEN "wrong number of tokens in " \o type \o " RDATA" ELSE ""

\* an RDATA field: how it is converted, and the message of the fatal call
\* when the conversion fails
DomField(msg) == [kind |-> "domain", time |-> FALSE, max |-> U32(0), msg |-> msg]
IpField(msg) == [kind |-> "ip", time |-> FALSE, max |-> U32(0), msg |-> msg]
UintField(allow_time_fmt, max, msg) ==
    [kind |-> "uint", time |-> allow_time_fmt, max |-> max, msg |-> msg]
\* UINT_MAX: a field that str_to_uint converts without a range check
UINT_MAX == [hi |-> W16 - 1, lo |-> W16 - 1]
U16_MAX == U32(65535)

\* the fields of a record's RDATA, in the order the branch converts them
Fields(type) ==
    IF type = "SOA"
    THEN << DomField("choked on MNAME in SOA RDATA"),
            DomField("choked on RNAME in SOA RDATA"),
            UintField(FALSE, UINT_MAX, "invalid SERIAL in SOA RDATA"),
            UintField(TRUE, TTL_MAX, "invalid REFRESH in SOA RDATA"),
            UintField(TRUE, TTL_MAX, "invalid RETRY in SOA RDATA"),
            UintField(TRUE, TTL_MAX, "invalid EXPIRE in SOA RDATA"),
            UintField(TRUE, TTL_MAX, "invalid MINIMUM in SOA RDATA") >>
    ELSE IF type = "MX"
    THEN << UintField(FALSE, U16_MAX, "invalid priority in MX RDATA"),
            DomField("choked on domain name in MX RDATA") >>
    ELSE IF type = "A" THEN << IpField("invalid IP address in A RDATA") >>
    ELSE IF type = "SRV"
    THEN << UintField(FALSE, U16_MAX, "invalid priority in SRV RDATA"),
            UintField(FALSE, U16_MAX, "invalid weight in SRV RDATA"),
            UintField(FALSE, U16_MAX, "invalid port in SRV RDATA"),
            DomField("choked on domain name in SRV RDATA") >>
    ELSE << DomField("choked on domain name in " \o type \o " RDATA") >>    \* NS, CNAME, PTR

\* the conversion of one field from its token
ConvertField(f, text, cur_origin) ==
    IF f.kind = "domain" THEN qualify_domain(text, cur_origin)
    ELSE IF f.kind = "ip" THEN sanitize_ip(text)
    ELSE NumField(text, f.time, f.max)

RECURSIVE Convert(_, _, _, _, _)
\* the conversions from field k on, r being the result for field k
Converted(cur_origin, fields, rd, k, vals, r) ==
    IF ~r.ok THEN [fatal |-> fields[k].msg]
    ELSE Convert(cur_origin, fields, rd, k + 1, Append(vals, r.val))
\* the conversions of the fields from field k on, in order: the values, or
\* the message of the fatal call at the first field that fails
Convert(cur_origin, fields, rd, k, vals) ==
    IF k > Len(fields) THEN [fatal |-> "", vals |-> vals]
    ELSE Converted(cur_origin, fields, rd, k, vals, ConvertField(fields[k], rd[k], cur_origin))

\* "\\%03o" of a byte, and "\\%03o\\%03o" of v / 256 and v % 256
OctByte(n) == "\\" \o Oct3(n)
OctPair(v) == OctByte(v.lo \div 256) \o OctByte(v.lo % 256)

\* the fprintf of the SOA branch with its last argument left out
FormatSoa_NoMinimum(O, v) ==
    "Z" \o O \o ":" \o v[1].text \o ":" \o v[2].text \o ":" \o FmtU(v[3])
    \o ":" \o FmtU(v[4]) \o ":" \o FmtU(v[5]) \o ":" \o FmtU(v[6]) \o ":\n"

\* the fprintf of the SOA branch: "Z%s:%s:%s:%u:%u:%u:%u:%u\n"
FormatSoa(O, v) ==
    "Z" \o O \o ":" \o v[1].text \o ":" \o v[2].text \o ":" \o FmtU(v[3])
    \o ":" \o FmtU(v[4]) \o ":" \o FmtU(v[5]) \o ":" \o FmtU(v[6])
    \o ":" \o FmtU(v[7]) \o "\n"

\* the fprintf of a record: O is owner.text, v the converted fields, T the
\* text of "%d" for local_ttl
Format(type, O, v, T) ==
    IF type = "SOA" THEN FormatSoa(O, v)
    ELSE IF type = "NS" THEN "&" \o O \o "::" \o v[1].text \o ":" \o T \o "\n"
    ELSE IF type = "MX"
    THEN "@" \o O \o "::" \o v[2].text \o ":" \o FmtD(v[1]) \o ":" \o T \o "\n"
    ELSE IF type = "A" THEN "+" \o O \o ":" \o v[1] \o ":" \o T \o "\n"
    ELSE IF type = "CNAME" THEN "C" \o O \o ":" \o v[1].text \o ":" \o T \o "\n"
    ELSE IF type = "PTR" THEN "^" \o O \o ":" \o v[1].text \o ":" \o T \o "\n"
    ELSE ":" \o O \o ":33:" \o OctPair(v[1]) \o OctPair(v[2]) \o OctPair(v[3])     \* SRV
         \o OctByte(v[4].len) \o v[4].text \o ":" \o T \o "\n"

RECURSIVE TxtLoop(_, _, _, _, _, _)
\* a pass of the loop, r being the result of sanitize_string on token[i]
TxtPiece(cx, n, toks, i, text, T, r) ==
    IF ~r.ok THEN CxFatal(CxWrite(cx, text), "choked while sanitizing TXT RDATA")
    ELSE TxtLoop(cx, n, toks, i + 1, text \o OctByte(r.val.len) \o r.val.text, T)
\* the for loop of the TXT branch: text is what fprintf has written of
\* this record so far
TxtLoop(cx, n, toks, i, text, T) ==
    IF i >= n THEN CxWrite(cx, text \o ":" \o T \o "\n")
    ELSE TxtPiece(cx, n, toks, i, text, T, sanitize_string(toks[i + 1]))

\* a record after its fields were converted: fatal() or fprintf
RecordEmit(cx, type, T, c) ==
    IF c.fatal # "" THEN CxFatal(cx, c.fatal)
    ELSE CxWrite(cx, Format(type, cx.owner.text, c.vals, T))

\* a record of a known type with count RDATA tokens
RecordOfType(cx, n, toks, garbage, next, T, type, count) ==
    IF type = "" THEN CxWarn(cx, "skipping unknown RR type")
    ELSE IF CountError(type, count) # "" THEN CxFatal(cx, CountError(type, count))
    ELSE IF type = "TXT" THEN TxtLoop(cx, n, toks, next + 1, ":" \o cx.owner.text \o ":16:", T)
    ELSE RecordEmit(cx, type, T,
                    Convert(cx.cur_origin, Fields(type),
                            [k \in 1..count |-> TokAt(toks, next + k, garbage)], 1, <<>>))

\* the type dispatch of a record whose type token is token[next]
RecordData(cx, n, toks, garbage, next, local_ttl) ==
    RecordOfType(cx, n, toks, garbage, next, FmtD(local_ttl),
                 RRType(TokAt(toks, next, garbage)), n - next - 1)

\* a record from the type token on: pre is the TTL/class prefix
RecordTyped(cx, n, toks, garbage, pre) ==
    RecordData([(IF pre.warn THEN CxWarn(cx, "invalid TTL in RR") ELSE cx)
                   EXCEPT !.ub = @ \/ pre.next >= n],
               n, toks, garbage, pre.next, pre.local_ttl)

\* a record from the TTL/class prefix on, the owner being settled
RecordBody(cx, n, toks, garbage) ==
    RecordTyped(cx, n, toks, garbage, RecordPrefix(toks, garbage, cx.ttl))

\* how the owner part of the record branch ends: stop for fatal() and for
\* "return 1"
OwnerStop(cx) == [cx |-> cx, stop |-> TRUE]
OwnerGo(cx) == [cx |-> cx, stop |-> FALSE]

\* the out-of-zone test on the owner just stored, and "prev_owner = 1"
OwnerInZone(cx) ==
    IF ~StrEq(cx.origin.text, ".") /\ OutOfZone(cx.origin, cx.owner)
    THEN OwnerStop(CxWarn(cx, "ignoring out-of-zone data"))
    ELSE OwnerGo([cx EXCEPT !.prev_owner = TRUE])

\* the owner part from the result q of "qualify_domain (&owner, token[0],
\* cur_origin)" on
OwnerQualified(cx, q) ==
    IF ~q.ok THEN OwnerStop(CxFatal(cx, "choked on owner name in RR"))
    ELSE OwnerInZone([cx EXCEPT !.owner = q.val])

\* the owner part of the record branch: t0 is token[0]
RecordOwner(cx, t0) ==
    IF ~StrEq(t0, " ") THEN OwnerQualified(cx, qualify_domain(t0, cx.cur_origin))
    ELSE IF ~cx.prev_owner
        THEN OwnerStop(CxFatal(cx, "RR tried to inherit owner from previous record, but there was no previous RR"))
    ELSE OwnerGo(cx)

\* the record branch after its owner part ended in o
RecordRest(o, n, toks, garbage) ==
    IF o.stop THEN o.cx ELSE RecordBody(o.cx, n, toks, garbage)

\* the record branch ("handle records")
HandleRecord(cx, n, toks, garbage) ==
    IF n < 3 THEN CxFatal(cx, "RR does not have enough tokens")
    ELSE RecordRest(RecordOwner(cx, TokAt(toks, 0, garbage)), n, toks, garbage)

\* the entry of the history for a call of handle_entry that started in
\* state cx and ended in state r
LogEntry(cx, r, n, toks, garbage, synthetic) ==
    [tok |-> [k \in 1..n |-> TokAt(toks, k - 1, garbage)],
     synthetic |-> synthetic,
     fatal |-> r.fatal,
     err |-> SubSeq(r.err, Len(cx.err) + 1, Len(r.err)),
     lines |-> SubSeq(r.out, Len(cx.out) + 1, Len(r.out)),
     ttl |-> cx.ttl,
     ttl_after |-> r.ttl,
     cur_origin |-> cx.cur_origin,
     prev_owner |-> cx.prev_owner,
     owner_before |-> cx.owner.text,
     owner_after |-> r.owner.text,
     children |-> Len(r.log) - Len(cx.log)]
\* the state r a call of handle_entry ended in, the call added to the
\* history
Logged(cx, r, n, toks, garbage, synthetic) ==
    [r EXCEPT !.log = Append(@, LogEntry(cx, r, n, toks, garbage, synthetic))]

RECURSIVE handle_entry(_, _, _, _, _)
RECURSIVE GenLoop(_, _, _, _, _, _, _, _)
\* a pass of the loop after construct_gen_output left l and r in lhs_str
\* and rhs_str
GenPass(cx, i, stop, step, lhs, type, rhs, garbage, l, r) ==
    IF l.fatal # "" THEN CxFatal(cx, l.fatal)
    ELSE IF r.fatal # "" THEN CxFatal(cx, r.fatal)
    ELSE GenLoop(handle_entry(cx, 3, <<l.str, type, r.str>>, garbage, TRUE),
                 i + step, stop, step, lhs, type, rhs, garbage)

\* the loop with "i < stop" for its test: the last value is left out
GenLoop_StopsEarly(cx, i, stop, step, lhs, type, rhs, garbage) ==
    IF cx.fatal \/ i >= stop THEN cx
    ELSE GenPass(cx, i, stop, step, lhs, type, rhs, garbage,
                 construct_gen_output(lhs, i), construct_gen_output(rhs, i))

\* "for (i = start; i <= stop; i += step)" of the $GENERATE branch
GenLoop(cx, i, stop, step, lhs, type, rhs, garbage) ==
    IF cx.fatal \/ i > stop THEN cx
    ELSE GenPass(cx, i, stop, step, lhs, type, rhs, garbage,
                 construct_gen_output(lhs, i), construct_gen_output(rhs, i))

\* the $GENERATE branch from the range read and the two parse_gen_string
\* calls on
GenRun(cx, type, garbage, range, lhs, rhs) ==
    IF range.fatal # "" THEN CxFatal(cx, range.fatal)
    ELSE IF lhs.fatal # "" THEN CxFatal(cx, lhs.fatal)
    ELSE IF rhs.fatal # "" THEN CxFatal(cx, rhs.fatal)
    ELSE GenLoop(cx, range.start, range.stop, range.step,
                 lhs.parts, type, rhs.parts, garbage)

\* the $GENERATE branch from the type test on: type is token[3]
GenTyped(cx, toks, garbage, type) ==
    IF ~StrCaseEq(type, "PTR") /\ ~StrCaseEq(type, "CNAME")
       /\ ~StrCaseEq(type, "A") /\ ~StrCaseEq(type, "NS")
    THEN CxFatal(cx, "$GENERATE directive has unknown RR type")
    ELSE GenRun(cx, type, garbage, GenRange(TokAt(toks, 1, garbage)),
                parse_gen_string(TokAt(toks, 2, garbage)),
                parse_gen_string(TokAt(toks, 4, garbage)))

\* the $GENERATE branch
HandleGenerate(cx, n, toks, garbage) ==
    IF n # 5 THEN CxFatal(cx, "$GENERATE directive has wrong number of arguments")
    ELSE GenTyped(cx, toks, garbage, TokAt(toks, 3, garbage))

\* the dispatch of handle_entry on t0 = token[0]
Dispatch(cx, n, toks, garbage, t0) ==
    IF n = 0 THEN cx
    ELSE IF StrCaseEq(t0, "$ORIGIN") THEN HandleOrigin(cx, n, toks, garbage)
    ELSE IF StrCaseEq(t0, "$TTL") THEN HandleTtl(cx, n, toks, garbage)
    ELSE IF StrCaseEq(t0, "$GENERATE") THEN HandleGenerate(cx, n, toks, garbage)
    ELSE IF StrCaseEq(t0, "$INCLUDE")
        THEN CxFatal(cx, "sorry, $INCLUDE directive is not implemented")
    ELSE IF Ch(t0, 1) = "$" THEN CxWarn(cx, "ignoring unknown $ directive")
    ELSE HandleRecord(cx, n, toks, garbage)

\* handle_entry (num_tokens, token, cur_origin, top_origin, ttl); synthetic
\* tells the call made by the $GENERATE branch from the call made by main
handle_entry(cx, n, toks, garbage, synthetic) ==
    Logged(cx, Dispatch(cx, n, toks, garbage, TokAt(toks, 0, garbage)),
           n, toks, garbage, synthetic)

(***************************************************************************)
(* The program: main and its state                                         *)
(***************************************************************************)
VARIABLES
    pc,              \* where main is: "main", "tokenize", "handle", "close", "exit";
                     \* "call" when a library function is applied on its own
    argv1,           \* argv[1], the origin given on the command line
    stdin,           \* the input not yet read
    eof,             \* fgets has returned NULL
    file,            \* the temp file's stream: "null", "open", "closed"
    temp,            \* whether the temp file exists
    renamed,         \* whether the temp file was renamed to the output file
    status,          \* the exit status; -1 while the program runs
    origin, cur_origin, ttl,      \* the locals of main
    owner, prev_owner,            \* the statics of handle_entry
    line, token, tk, num_tokens,  \* the buffer and locals of tokenize, its result
    line_num, start_line_num,
    out, err, log, ub,            \* see handle_entry
    call, ret        \* a library function applied on its own: the call and its results

progvars == <<pc, argv1, stdin, eof, file, temp, renamed, status, origin, cur_origin,
              ttl, owner, prev_owner, line, token, tk, num_tokens, line_num,
              start_line_num, out, err, log, ub>>
vars == <<progvars, call, ret>>

NoCall == [fn |-> "none"]
RootOrigin == String(".", 1, 1)

\* what the file system answers to fclose, unlink and rename
IOAnswers == [close : BOOLEAN, unlink : BOOLEAN, rename : BOOLEAN]
\* what open and fdopen answer in main
OpenAnswers == {"ok", "open fails", "fdopen fails"}
\* what an uninitialised token slot may hold
Garbage == {"", "TXT"}

\* the state at where, with the origin argument, the input and the call
\* drawn from args, inputs and calls
Start(where, args, inputs, calls) ==
    /\ pc = where
    /\ argv1 \in args
    /\ stdin \in inputs
    /\ eof = FALSE
    /\ file = "null"
    /\ temp = FALSE
    /\ renamed = FALSE
    /\ status = -1
    /\ origin = RootOrigin
    /\ cur_origin = RootOrigin
    /\ ttl = U32(DEFAULT_TTL)
    /\ owner = String("", 0, 0)
    /\ prev_owner = FALSE
    /\ line = <<>>
    /\ token = [k \in 1..MAX_TOKENS |-> Uninit]
    /\ tk = TkInit
    /\ num_tokens = 0
    /\ line_num = 1
    /\ start_line_num = 1
    /\ out = <<>>
    /\ err = <<>>
    /\ log = <<>>
    /\ ub = FALSE
    /\ call \in calls
    /\ ret = <<>>

\* the state when main is entered
ProgramStart(args, inputs) == Start("main", args, inputs, {NoCall})

\* what fatal() prints after its message e.. when closing or unlinking the
\* temp file fails
FatalNotes(io) ==
    IF file # "open" THEN <<>>
    ELSE IF ~io.close THEN <<<<"error", "unable to close temp file">>>>
    ELSE IF ~io.unlink THEN <<<<"error", "unable to unlink temp file">>>>
    ELSE <<>>

\* fatal() leaving the temp file in place whatever close and unlink answer
FatalExit_NoUnlink(io, e) ==
    /\ err' = e
    /\ file' = IF file = "open" THEN "closed" ELSE file
    /\ temp' = temp
    /\ status' = 1
    /\ pc' = "exit"
    /\ renamed' = renamed

\* fatal() after it printed its message (e is stderr with the message):
\* with the temp file open, close it and, if that worked, unlink it;
\* exit (1)
FatalExit(io, e) ==
    /\ err' = e \o FatalNotes(io)
    /\ file' = IF file = "open" THEN "closed" ELSE file
    /\ temp' = IF file = "open" /\ io.close /\ io.unlink THEN FALSE ELSE temp
    /\ status' = 1
    /\ pc' = "exit"
    /\ renamed' = renamed

\* main from the result q of qualify_domain on argv[1] on: fatal(), or
\* the temp file is opened
MainQualified(q) ==
    IF ~q.ok
    THEN /\ \E io \in IOAnswers :
               FatalExit(io, Append(err, <<"fatal", "unable to qualify initial origin">>))
         /\ UNCHANGED <<origin, cur_origin>>
    ELSE /\ origin' = q.val
         /\ cur_origin' = q.val
         /\ renamed' = renamed
         /\ \E a \in OpenAnswers :
               /\ temp' = (a # "open fails")
               /\ file' = IF a = "ok" THEN "open" ELSE "null"
               /\ status' = IF a = "ok" THEN -1 ELSE 1
               /\ pc' = IF a = "ok" THEN "tokenize" ELSE "exit"
               /\ err' = IF a = "ok" THEN err
                         ELSE IF a = "open fails"
                             THEN Append(err, <<"main", "unable to create temp file">>)
                         ELSE Append(err, <<"main", "unable to create file stream">>)

\* main up to the loop: the initial origin and the temp file
Main ==
    /\ pc = "main"
    /\ MainQualified(qualify_domain(argv1, origin))
    /\ UNCHANGED <<argv1, stdin, eof, ttl, owner, prev_owner, line, token, tk,
                   num_tokens, line_num, start_line_num, out, log, ub, call, ret>>

\* the diagnostics of tokenize after a line was scanned
ScanWarnings(s) ==
    (IF s.tk.in_quote
     THEN <<<<"warning", "hanging backslash at end of line; pretending it was terminated">>>>
     ELSE <<>>)
    \o (IF s.tk.in_doublequote
        THEN <<<<"warning", "open doublequoted string at end of line; pretending it was closed">>>>
        ELSE <<>>)

\* tokenize after the for loop scanned what fgets read: fatal(), another
\* pass of the do loop, or the return to main
TokenizeScanned(s) ==
    /\ line' = s.line
    /\ token' = s.token
    /\ ub' = (ub \/ s.ub)
    /\ IF s.fatal # ""
       THEN /\ tk' = s.tk
            /\ UNCHANGED <<num_tokens, line_num>>
            /\ \E io \in IOAnswers : FatalExit(io, Append(err, <<"fatal", s.fatal>>))
       ELSE /\ err' = err \o ScanWarnings(s)
            /\ line_num' = line_num + 1
            /\ UNCHANGED <<file, temp, status, renamed>>
            /\ IF s.tk.paren_level # 0
               THEN /\ tk' = s.tk
                    /\ pc' = "tokenize"
                    /\ UNCHANGED num_tokens
               ELSE /\ tk' = TkInit
                    /\ pc' = "handle"
                    /\ num_tokens' = IF s.tk.found_nonblank_token
                                     THEN s.tk.num_tokens ELSE 0

\* tokenize from the result f of fgets on: return -1 when it is NULL
TokenizeRead(locals, f) ==
    /\ stdin' = f.rest
    /\ IF f.null
       THEN /\ eof' = TRUE
            /\ num_tokens' = -1
            /\ tk' = TkInit
            /\ pc' = "close"
            /\ UNCHANGED <<line, token, line_num, err, ub, file, temp, status, renamed>>
       ELSE /\ eof' = eof
            /\ TokenizeScanned(ScanChunk(line, token, locals, f.chunk))

\* one pass of the do loop with the locals as they stand
TokenizePass(locals) == TokenizeRead(locals, Fgets(stdin, LINE_LEN + 1 - locals.i))

\* the passes of the do loop are followed while line_num is below this
MaxLineNum == 8

\* tokenize, one pass of its do loop: fgets, the scan of what it read, and
\* either the return to main (-1 at the end of input, the number of tokens
\* when no parenthesis is open), another pass, or fatal()
Tokenize ==
    /\ pc = "tokenize"
    /\ line_num < MaxLineNum
    /\ start_line_num' = IF tk.started THEN start_line_num ELSE line_num
    /\ TokenizePass(IF tk.started THEN tk ELSE [TkInit EXCEPT !.started = TRUE])
    /\ UNCHANGED <<argv1, origin, cur_origin, ttl, owner, prev_owner, out, log, call, ret>>

\* the texts of the first k slots of main's token array
TokenTexts(k, garbage) ==
    [j \in 1..(IF k < Len(token) THEN k ELSE Len(token)) |-> TokenText(line, token[j], garbage)]

\* main after handle_entry ended in r: the next pass of the loop, unless
\* fatal() was called
Handled(r) ==
    /\ cur_origin' = r.cur_origin
    /\ ttl' = r.ttl
    /\ owner' = r.owner
    /\ prev_owner' = r.prev_owner
    /\ out' = r.out
    /\ log' = r.log
    /\ ub' = r.ub
    /\ IF r.fatal
       THEN \E io \in IOAnswers : FatalExit(io, r.err)
       ELSE /\ err' = r.err
            /\ pc' = "tokenize"
            /\ UNCHANGED <<file, temp, status, renamed>>

\* the call of handle_entry in main's loop, to its return or to fatal()
Handle ==
    /\ pc = "handle"
    /\ \E garbage \in Garbage :
         Handled(handle_entry([cur_origin |-> cur_origin, origin |-> origin, ttl |-> ttl,
                               owner |-> owner, prev_owner |-> prev_owner, out |-> out,
                               err |-> err, fatal |-> FALSE, ub |-> ub, log |-> log],
                              num_tokens,
                              TokenTexts(IF num_tokens < 4 THEN 4 ELSE num_tokens, garbage),
                              garbage, FALSE))
    /\ UNCHANGED <<argv1, stdin, eof, origin, line, token, tk, num_tokens, line_num,
                   start_line_num, call, ret>>

\* what main prints when closing or renaming the temp file fails
CloseNotes(io) ==
    IF ~io.close THEN <<<<"main", "unable to close temp file">>>>
    ELSE IF io.rename THEN <<>>
    ELSE <<<<"main", "unable to rename temp file">>>>
         \o (IF io.unlink THEN <<>> ELSE <<<<"error", "unable to unlink temp file">>>>)

\* main after the loop: close the temp file and rename it to the output
\* file
Close ==
    /\ pc = "close"
    /\ \E io \in IOAnswers :
         /\ file' = "closed"
         /\ renamed' = (io.close /\ io.rename)
         /\ temp' = IF ~io.close THEN temp
                    ELSE IF io.rename THEN FALSE
                    ELSE IF io.unlink THEN FALSE ELSE temp
         /\ status' = IF io.close /\ io.rename THEN 0 ELSE 1
         /\ err' = err \o CloseNotes(io)
    /\ pc' = "exit"
    /\ UNCHANGED <<argv1, stdin, eof, origin, cur_origin, ttl, owner, prev_owner, line,
                   token, tk, num_tokens, line_num, start_line_num, out, log, ub,
                   call, ret>>

Next == Main \/ Tokenize \/ Handle \/ Close

(***************************************************************************)
(* Runs of the program: the origin argument and the input stream are       *)
(* drawn from small sets; an input stream is at most MaxLines lines.       *)
(***************************************************************************)
MaxLines == 3

RECURSIVE Concats(_, _)
\* the texts of at most k pieces drawn from L
Concats(L, k) ==
    IF k = 0 THEN {""}
    ELSE LET Z == Concats(L, k - 1) IN Z \cup {z \o l : z \in Z, l \in L}

Origins == {"example.com", "."}

\* records in and out of the zone, the blank owner, parentheses left open
\* and closed, $GENERATE in and out of the zone, and a bad address
ZoneLines ==
    { "a A 1.2.3.4\n",
      "b.other.org. A 1.2.3.4\n",
      " A 5.6.7.8\n",
      "m MX (\n",
      " 10 mail )\n",
      "$GENERATE 1-2 g$.other.org. A 10.0.0.$\n",
      "$GENERATE 1-2 h$ A 10.0.0.$\n",
      "bad A 1.2.3\n" }

Init == ProgramStart(Origins, Concats(ZoneLines, MaxLines))
Spec == Init /\ [][Next]_vars

\* the SOA record, $TTL with values that parse, that do not and that are
\* out of range, and records with and without a TTL of their own
SoaLine == "example.com. IN SOA ns1.example.com. hostmaster.example.com. 1 3600 900 604800 86400\n"
TtlLines ==
    { SoaLine,
      "$TTL 300\n",
      "$TTL 1h\n",
      "$TTL bogus\n",
      "$TTL 2147483647\n",
      "a A 1.2.3.4\n",
      "b 60 A 1.2.3.4\n" }

InitTtl == ProgramStart({"example.com"}, Concats(TtlLines, MaxLines))
SpecTtl == InitTtl /\ [][Next]_vars

\* directives with too few and too many tokens, among entries that are
\* well formed
ArityLines ==
    { "$TTL\n",
      "$TTL 1 2\n",
      "$ORIGIN\n",
      "$ORIGIN a b\n",
      "$ORIGIN sub\n",
      "$GENERATE 1-2 a$ A\n",
      "$GENERATE 1-2 a$ A 1.2.3.$ x\n",
      "a A 1.2.3.4\n" }

InitArity == ProgramStart({"example.com"}, Concats(ArityLines, MaxLines))
SpecArity == InitArity /\ [][Next]_vars

\* $GENERATE with and without a step, with an empty range, with "$$" and
\* with a target that is no address, and a record to follow
GenLines ==
    { "$GENERATE 1-3 host$ A 10.0.0.$\n",
      "$GENERATE 2-7/3 n$ NS ns$.example.net.\n",
      "$GENERATE 3-1 p$ PTR q$\n",
      "$GENERATE 1-2 a$$b$ CNAME t$\n",
      "$GENERATE 1-2 b$ A 1.2.$\n",
      "a A 1.2.3.4\n" }

InitGen == ProgramStart({"example.com"}, Concats(GenLines, MaxLines))
SpecGen == InitGen /\ [][Next]_vars

\* records whose numbers are at their ceiling, one above it, and above
\* UINT_MAX
NumLines ==
    { "@ SOA ns hm 2147483646 2147483646 1 1 1\n",
      "@ SOA ns hm 3000000000 1 1 1 1\n",
      "@ SOA ns hm 1 2147483647 1 1 1\n",
      "@ SOA ns hm 1 1 1 1 4294967296\n",
      "m MX 65535 mail\n",
      "m MX 65536 mail\n",
      "m MX 4294967297 mail\n",
      "s SRV 1 65535 65536 host\n" }

InitNum == ProgramStart({"example.com"}, Concats(NumLines, MaxLines))
SpecNum == InitNum /\ [][Next]_vars

\* entries of MAX_TOKENS tokens and of one more, as bare words and as
\* doublequoted strings, on one line and in parentheses
TokLines ==
    { "a A 1.2.3.4\n",
      "b TXT" \o Repeat(" x", MAX_TOKENS - 2) \o "\n",
      "b TXT" \o Repeat(" x", MAX_TOKENS - 1) \o "\n",
      "q TXT" \o Repeat(" \"x\"", MAX_TOKENS - 2) \o "\n",
      "q TXT" \o Repeat(" \"x\"", MAX_TOKENS - 1) \o "\n",
      "p TXT (\n",
      Repeat(" \"x\"", MAX_TOKENS - 1) \o " )\n" }

InitTok == ProgramStart({"example.com"}, Concats(TokLines, MaxLines))
SpecTok == InitTok /\ [][Next]_vars

\* a physical line that fills the buffer of LINE_LEN + 1 bytes exactly,
\* lines that are one byte and twelve bytes longer, and an open parenthesis
\* followed by more than LINE_LEN bytes; each is an input of its own, next
\* to the inputs of short lines with and without parentheses
LongLines ==
    { "c A 1.2.3.4 ;" \o Repeat("x", LINE_LEN - 14) \o "\n",
      "d A 1.2.3.4 ;" \o Repeat("x", LINE_LEN - 13) \o "\n",
      "e A 1.2.3.4 ;" \o Repeat("x", LINE_LEN - 13) \o "f A 5.6.7.8\n",
      "p TXT ( " \o Repeat("x", LINE_LEN) \o " )\n" }
ShortLines ==
    { "a A 1.2.3.4 ; comment\n",
      "b A (\n",
      "5.6.7.8 )\n" }

InitLong == ProgramStart({"example.com"}, Concats(ShortLines, MaxLines) \cup LongLines)
SpecLong == InitLong /\ [][Next]_vars

\* records without a prefix, with a TTL, a TTL and a class, a class and a
\* TTL, a class alone, and a TTL above 2147483646 in both places, after a
\* $TTL directive or without one
PrefixLines ==
    { "$TTL 300\n",
      "a A 1.2.3.4\n",
      "b 60 A 1.2.3.4\n",
      "c 1h IN NS ns\n",
      "d in 2m A 1.2.3.4\n",
      "e IN NS ns\n",
      "f 2147483647 A 1.2.3.4\n",
      "g IN 4294967295 NS ns\n" }

MaxPrefixLines == 2
InitPrefix == ProgramStart({"example.com"}, Concats(PrefixLines, MaxPrefixLines))
SpecPrefix == InitPrefix /\ [][Next]_vars

\* records of three tokens that a TTL and a class fill up to the last
\* token, among records with a type, and a $GENERATE directive
ReadLines ==
    { "a A 1.2.3.4\n",
      "b 60 IN A 1.2.3.4\n",
      "c 60 A\n",
      "d 60 IN\n",
      "e IN 60\n",
      "$GENERATE 1-2 h$ A 1.2.3.$\n" }

InitRead == ProgramStart({"example.com"}, Concats(ReadLines, MaxLines))
SpecRead == InitRead /\ [][Next]_vars

(***************************************************************************)
(* sanitize_string applied on its own: to a text of at most MaxSanLen      *)
(* characters, and then to the text it stored.                             *)
(***************************************************************************)
MaxSanLen == 4
\* a plain character, the characters that are escaped, and the digits of
\* escapes that decode to a plain character, to a reserved one and to a
\* byte that is not printable
SanChars == {"a", ":", ".", "\\", "0", "7", "2"}

\* sanitize_string (&c, call.arg)
SanCall ==
    /\ pc = "call"
    /\ call.fn = "sanitize_string"
    /\ ret = <<>>
    /\ ret' = <<sanitize_string(call.arg)>>
    /\ UNCHANGED <<progvars, call>>

\* sanitize_string (&d, c.text) after the first call returned 0
SanAgain ==
    /\ pc = "call"
    /\ Len(ret) = 1
    /\ ret[1].ok
    /\ ret' = Append(ret, sanitize_string(ret[1].val.text))
    /\ UNCHANGED <<progvars, call>>

NextSan == SanCall \/ SanAgain
\* texts around the DOMAIN_LEN limit: DOMAIN_LEN - 1 characters that are
\* stored as one byte, or as four, and up to two characters more
SanLong ==
    {Repeat(c, DOMAIN_LEN - 1) \o t : c \in {"a", ":"}, t \in Concats(SanChars, 2)}

InitSan ==
    Start("call", {""}, {""},
          {[fn |-> "sanitize_string", arg |-> s] :
              s \in Concats(SanChars, MaxSanLen) \cup SanLong})
SpecSan == InitSan /\ [][NextSan]_vars

(***************************************************************************)
(* qualify_domain applied on its own: to a name of at most MaxNameLen      *)
(* characters, or a name near the DOMAIN_LEN limit, and an origin in       *)
(* canonical form.                                                         *)
(***************************************************************************)
MaxNameLen == 3
NameChars == {"a", ".", "@", "\\"}
\* the missing origin, the root, a plain origin and one that holds an escape
CanonicalOrigins ==
    {String("", 0, 0), String(".", 1, 1), String("example.com.", 12, 12),
     String("x\\072y.", 4, 7)}
\* names that with one of the origins end just below and just above
\* DOMAIN_LEN logical characters
LongNames ==
    {Repeat(c, DOMAIN_LEN - k) : c \in {"a", ":"}, k \in {0, 1, 4, 5, 12, 13}}
        \cup {Repeat("a", DOMAIN_LEN - 1) \o "."}

\* qualify_domain (&dest, call.arg, &call.origin)
QualCall ==
    /\ pc = "call"
    /\ call.fn = "qualify_domain"
    /\ ret = <<>>
    /\ ret' = <<qualify_domain(call.arg, call.origin)>>
    /\ UNCHANGED <<progvars, call>>

NextQual == QualCall
InitQual ==
    Start("call", {""}, {""},
          {[fn |-> "qualify_domain", arg |-> s, origin |-> o] :
              s \in Concats(NameChars, MaxNameLen) \cup LongNames, o \in CanonicalOrigins})
SpecQual == InitQual /\ [][NextQual]_vars

(***************************************************************************)
(* str_to_uint applied on its own, with and without the time format: to a  *)
(* text of at most MaxUintLen characters, or a text whose value is near    *)
(* 2^32.                                                                   *)
(***************************************************************************)
MaxUintLen == 4
UintChars == {"1", "2", "9", "w", "d", "H", "m", "S", "x"}
UintLong == {"4294967295", "4294967296", "4294967297", "7101w", "7102w", "49710d6h28m16s"}

\* str_to_uint (&dest, call.arg, call.allow_time_fmt)
UintCall ==
    /\ pc = "call"
    /\ call.fn = "str_to_uint"
    /\ ret = <<>>
    /\ ret' = <<str_to_uint(call.arg, call.allow_time_fmt)>>
    /\ UNCHANGED <<progvars, call>>

NextUint == UintCall
InitUint ==
    Start("call", {""}, {""},
          {[fn |-> "str_to_uint", arg |-> s, allow_time_fmt |-> a] :
              s \in Concats(UintChars, MaxUintLen) \cup UintLong, a \in BOOLEAN})
SpecUint == InitUint /\ [][NextUint]_vars

(***************************************************************************)
(* sanitize_ip applied on its own: to at most MaxGroups groups joined by   *)
(* dots.                                                                   *)
(***************************************************************************)
MaxGroups == 4
\* the empty group, groups with and without leading zeros, at and above
\* 255, with a character that is no digit, and above INT_MAX
IpGroups == {"", "0", "1", "001", "255", "256", "1x", "2147483648", "4294967297"}
RECURSIVE Dotted(_, _)
\* the texts of at most n groups of G joined by dots
Dotted(G, n) ==
    IF n <= 1 THEN G ELSE G \cup {a \o "." \o g : a \in Dotted(G, n - 1), g \in G}

\* sanitize_ip (dest, call.arg)
IpCall ==
    /\ pc = "call"
    /\ call.fn = "sanitize_ip"
    /\ ret = <<>>
    /\ \E r \in IpOutcomes(call.arg) : ret' = <<r>>
    /\ UNCHANGED <<progvars, call>>

NextIp == IpCall
InitIp ==
    Start("call", {""}, {""},
          {[fn |-> "sanitize_ip", arg |-> s] : s \in Dotted(IpGroups, MaxGroups)})
SpecIp == InitIp /\ [][NextIp]_vars

(***************************************************************************)
(* The temp file and the exit status.                                      *)
(***************************************************************************)
\* stderr holds the message m
Said(m) == \E k \in 1..Len(err) : err[k][2] = m

\* fatal() was called
HasFatal == \E k \in 1..Len(err) : err[k][1] = "fatal"

C2_OpenParenAtEofFatal ==
    [][(pc = "tokenize" /\ stdin = "" /\ tk.paren_level > 0)
         => (HasFatal' /\ pc' = "exit" /\ status' # 0 /\ ~renamed')]_vars

(***************************************************************************)
(* Owners.                                                                 *)
(***************************************************************************)
\* the owner of an output line: the text between the character that tells
\* the kind of the line and the first colon after it
LineOwner(l) == SubSeq(l, 2, strchr(l, 2, ":") - 1)

\* name is top or ends with "." and top
InZone(name, top) ==
    \/ StrCaseEq(name, top)
    \/ (Len(name) > Len(top) /\ StrCaseEq(From(name, Len(name) - Len(top)), "." \o top))

\* C3: when the top origin is not the root, the owner of every line written
\* to the output is the top origin or ends with "." and the top origin
C3_OutputInZone ==
    (pc # "main" /\ origin # RootOrigin)
        => \A k \in 1..Len(out) : InZone(LineOwner(out[k]), origin.text)

\* the entry e of the history is a record (no directive, not empty)
IsRecord(e) == Len(e.tok) > 0 /\ Ch(e.tok[1], 1) # "$"
\* the record e has the blank owner
IsBlankOwner(e) == IsRecord(e) /\ Len(e.tok) >= 3 /\ e.tok[1] = " "
\* the record e names its owner, and qualify_domain accepts it
QualifiesOwner(e) ==
    /\ IsRecord(e) /\ Len(e.tok) >= 3 /\ e.tok[1] # " "
    /\ qualify_domain(e.tok[1], e.cur_origin).ok
\* the records before the k-th entry of the history that qualified their owner
QualifiedBefore(k) == {j \in 1..(k - 1) : QualifiesOwner(log[j])}
\* the greatest element of a non-empty set of naturals
Greatest(S) == CHOOSE j \in S : \A i \in S : i <= j
\* the owner the j-th entry of the history qualified
QualifiedOwner(j) == qualify_domain(log[j].tok[1], log[j].cur_origin).val.text
\* the call ended in fatal() for the lack of a previous record
InheritFatal(e) ==
    /\ e.fatal
    /\ e.err # <<>>
    /\ e.err[Len(e.err)] = <<"fatal", "RR tried to inherit owner from previous record, but there was no previous RR">>

\* C4: a record with the blank owner is fatal exactly when no earlier
\* record had its owner qualified, and otherwise each of its lines has the
\* owner that the latest such record qualified
C4_BlankOwnerInherits ==
    \A k \in 1..Len(log) :
        IsBlankOwner(log[k]) =>
            /\ InheritFatal(log[k]) <=> (QualifiedBefore(k) = {})
            /\ QualifiedBefore(k) # {} =>
                   \A i \in 1..Len(log[k].lines) :
                       LineOwner(log[k].lines[i]) = QualifiedOwner(Greatest(QualifiedBefore(k)))

(***************************************************************************)
(* The SOA record.                                                         *)
(***************************************************************************)
SoaTokens ==
    <<"example.com.", "IN", "SOA", "ns1.example.com.", "hostmaster.example.com.",
      "1", "3600", "900", "604800", "86400">>
\* the SOA record is the only entry handled so far, under the origin
\* example.com
OnlySoa ==
    argv1 = "example.com" /\ pc # "handle" /\ Len(log) = 1 /\ log[1].tok = SoaTokens

SoaStated == "Zexample.com:ns1.example.com:hostmaster.example.com:1:3600:900:604800:86400"

IsTtl2(e) == Len(e.tok) = 2 /\ StrCaseEq(e.tok[1], "$TTL")
\* the default TTL a $TTL directive with the value t is to leave
TtlOf(t) ==
    IF t = "300" THEN U32(300)
    ELSE IF t = "1h" THEN U32(3600)
    ELSE IF t = "bogus" \/ t = "2147483647" THEN U32(DEFAULT_TTL)
    ELSE IF NumField(t, TRUE, TTL_MAX).ok THEN NumField(t, TRUE, TTL_MAX).val
    ELSE U32(DEFAULT_TTL)
\* the record e has a TTL of its own
HasOwnTtl(e) ==
    \/ str_to_uint(e.tok[2], TRUE).ok
    \/ (StrCaseEq(e.tok[2], "IN") /\ str_to_uint(e.tok[3], TRUE).ok)
\* the line l ends with the TTL t as its last field
EndsWithTtl(l, t) ==
    Len(l) > Len(FmtD(t)) + 2 /\ From(l, Len(l) - Len(FmtD(t)) - 1) = ":" \o FmtD(t) \o "\n"
\* a $TTL directive of two tokens sets the default TTL to its value, or to
\* 86400 when the value does not parse or is above 2147483646, with
\* warnings at most; the default is carried from entry to entry
TtlDirective ==
    /\ \A k \in 1..Len(log) :
           /\ log[k].ttl = IF k = 1 THEN U32(DEFAULT_TTL) ELSE log[k - 1].ttl_after
           /\ IsTtl2(log[k]) =>
                  /\ ~log[k].fatal
                  /\ log[k].lines = <<>>
                  /\ \A i \in 1..Len(log[k].err) : log[k].err[i][1] = "warning"
                  /\ log[k].ttl_after = TtlOf(log[k].tok[2])
    /\ pc \notin {"main", "handle"} /\ log # <<>> => ttl = log[Len(log)].ttl_after
\* the lines of the records without a TTL of their own, SOA records left
\* out or not, end with the default TTL
TtlEmitted(soa) ==
    \A k \in 1..Len(log) :
        (IsRecord(log[k]) /\ Len(log[k].tok) >= 3 /\ ~HasOwnTtl(log[k])) =>
            \A i \in 1..Len(log[k].lines) :
                \/ ~soa /\ Ch(log[k].lines[i], 1) = "Z"
                \/ EndsWithTtl(log[k].lines[i], log[k].ttl)

\* C7 as stated: $TTL with two tokens sets the default TTL to the value or
\* falls back to 86400, never fatal, and every later record without a TTL
\* of its own is written with that default
C7_TtlFallbackAllRecords == TtlDirective /\ TtlEmitted(TRUE)

\* C7: $TTL with two tokens sets the default TTL to the value or falls back
\* to 86400, never fatal, and every later record without a TTL of its own,
\* other than an SOA record, is written with that default; an SOA line has
\* no TTL field
C7_TtlFallback == TtlDirective /\ TtlEmitted(FALSE)

\* after a $TTL that fell back to 86400 over an earlier $TTL, a record
\* without a TTL of its own was written with 86400
C7_Witness ==
    /\ Len(log) = 3
    /\ IsTtl2(log[1]) /\ log[1].ttl_after = U32(300)
    /\ IsTtl2(log[2]) /\ log[2].tok[2] = "bogus" /\ log[2].ttl_after = U32(DEFAULT_TTL)
    /\ log[3].lines = <<"+a.example.com.:1.2.3.4:86400\n">>

(***************************************************************************)
(* The number of tokens of a directive.                                    *)
(***************************************************************************)
\* the entry e is the directive d with a number of tokens other than n
WrongArity(e, d, n) == Len(e.tok) > 0 /\ StrCaseEq(e.tok[1], d) /\ Len(e.tok) # n
\* the k-th call of handle_entry ended the run: fatal() was called, no
\* entry was handled after it and nothing is renamed
EndsRun(k) == log[k].fatal /\ k = Len(log) /\ pc = "exit" /\ status = 1 /\ ~renamed
\* the k-th call of handle_entry only warned with msg and set the default
\* TTL to 86400
WarnsOnly(k, msg) ==
    /\ ~log[k].fatal
    /\ log[k].err = <<<<"warning", msg>>>>
    /\ log[k].lines = <<>>
    /\ log[k].ttl_after = U32(DEFAULT_TTL)

\* C8 as stated: $ORIGIN with other than 2 tokens, $TTL with other than 2
\* tokens and $GENERATE with other than 5 tokens each end the run
C8_WrongArityFatal ==
    \A k \in 1..Len(log) :
        (\/ WrongArity(log[k], "$ORIGIN", 2)
         \/ WrongArity(log[k], "$TTL", 2)
         \/ WrongArity(log[k], "$GENERATE", 5)) => EndsRun(k)

\* C8: $ORIGIN with other than 2 tokens and $GENERATE with other than 5
\* tokens each end the run; $TTL with other than 2 tokens only warns and
\* sets the default TTL to 86400
C8_WrongArity ==
    \A k \in 1..Len(log) :
        /\ (WrongArity(log[k], "$ORIGIN", 2) \/ WrongArity(log[k], "$GENERATE", 5))
               => EndsRun(k)
        /\ WrongArity(log[k], "$TTL", 2)
               => WarnsOnly(k, "$TTL directive has wrong number of arguments")

\* $TTL with three tokens was passed with a warning, a record was written,
\* and $ORIGIN with three tokens ended the run
C8_Witness ==
    /\ Len(log) = 3
    /\ WrongArity(log[1], "$TTL", 2) /\ ~log[1].fatal
    /\ log[2].lines # <<>>
    /\ WrongArity(log[3], "$ORIGIN", 2) /\ EndsRun(3)

(***************************************************************************)
(* $GENERATE.                                                              *)
(***************************************************************************)
\* the entry e is a $GENERATE directive of five tokens read from the input,
\* with a range that parses and a type $GENERATE takes
IsGen(e) ==
    /\ ~e.synthetic
    /\ Len(e.tok) = 5
    /\ StrCaseEq(e.tok[1], "$GENERATE")
    /\ GenRange(e.tok[2]).fatal = ""
    /\ \E t \in {"A", "NS", "CNAME", "PTR"} : StrCaseEq(e.tok[4], t)
\* the template t has "$$" in it
HasDollars(t) == strstr(t, "$$") # 0
\* the '$' of the template t are bare slots or "$$": no modifier, no
\* backslash
IsPlain(t) == strstr(t, "{") = 0 /\ strstr(t, "\\") = 0
RECURSIVE Expand(_, _, _)
\* the template t from position p on with d for each '$' and a single '$'
\* for each "$$"
Expand(t, p, d) ==
    IF p > Len(t) THEN ""
    ELSE IF Ch(t, p) = "$" /\ Ch(t, p + 1) = "$" THEN "$" \o Expand(t, p + 2, d)
    ELSE IF Ch(t, p) = "$" THEN d \o Expand(t, p + 1, d)
    ELSE Ch(t, p) \o Expand(t, p + 1, d)
\* how many values start, start+step, ... do not exceed stop
Passes(r) == IF r.stop < r.start THEN 0 ELSE (r.stop - r.start) \div r.step + 1
\* the j-th value of the iterator
Value(r, j) == r.start + (j - 1) * r.step
\* the calls of handle_entry made for the $GENERATE directive log[k] are
\* the log[k].children entries before it; the j-th of them
Child(k, j) == log[k - log[k].children + j - 1]
\* the j-th call made for log[k] has the three tokens expanded for the j-th
\* value
ChildExpanded(k, j) ==
    /\ Child(k, j).synthetic
    /\ Child(k, j).tok = <<Expand(log[k].tok[3], 1, Dec(Value(GenRange(log[k].tok[2]), j))),
                           log[k].tok[4],
                           Expand(log[k].tok[5], 1, Dec(Value(GenRange(log[k].tok[2]), j)))>>
\* one call per value in ascending order, up to the call that was fatal if
\* one was
GenExpanded(k) ==
    /\ log[k].children <= Passes(GenRange(log[k].tok[2]))
    /\ ~log[k].fatal => log[k].children = Passes(GenRange(log[k].tok[2]))
    /\ log[k].fatal => log[k].children > 0 /\ Child(k, log[k].children).fatal
    /\ \A j \in 1..log[k].children :
           /\ ChildExpanded(k, j)
           /\ j < log[k].children => ~Child(k, j).fatal

\* C6: a $GENERATE directive whose templates have bare '$' slots only
\* makes one call of handle_entry with three tokens for each value start,
\* start+step, ... not exceeding stop, in ascending order and before the
\* next entry is read, each '$' replaced by the value in decimal; the
\* directive "$GENERATE 1-3 host$ A 10.0.0.$" writes the three A lines of
\* host1, host2 and host3
C6_GenerateExpands ==
    /\ \A k \in 1..Len(log) :
           /\ (IsGen(log[k]) /\ IsPlain(log[k].tok[3]) /\ IsPlain(log[k].tok[5])
               /\ ~HasDollars(log[k].tok[3]) /\ ~HasDollars(log[k].tok[5]))
                  => GenExpanded(k)
           /\ log[k].tok = <<"$GENERATE", "1-3", "host$", "A", "10.0.0.$">>
                  => log[k].lines = <<"+host1.example.com.:10.0.0.1:86400\n",
                                      "+host2.example.com.:10.0.0.2:86400\n",
                                      "+host3.example.com.:10.0.0.3:86400\n">>
           /\ log[k].synthetic
                  => \E p \in (k + 1)..Len(log) :
                         ~log[p].synthetic /\ p - log[p].children <= k
                         /\ \A q \in (k + 1)..(p - 1) : log[q].synthetic
    /\ pc = "tokenize" /\ log # <<>> => ~log[Len(log)].synthetic

\* a $GENERATE with a step made its two calls, for 2 and for 5, and the
\* record after it was written
C6_Witness ==
    /\ Len(log) = 4
    /\ log[3].tok = <<"$GENERATE", "2-7/3", "n$", "NS", "ns$.example.net.">>
    /\ log[1].tok = <<"n2", "NS", "ns2.example.net.">>
    /\ log[2].tok = <<"n5", "NS", "ns5.example.net.">>
    /\ Len(log[3].lines) = 2
    /\ log[4].lines # <<>>

\* C9: in the strings a $GENERATE directive generates, each "$$" of a
\* template is a single '$'
C9_DollarDollarIsDollar ==
    \A k \in 1..Len(log) :
        (IsGen(log[k]) /\ IsPlain(log[k].tok[3]) /\ IsPlain(log[k].tok[5])
         /\ (HasDollars(log[k].tok[3]) \/ HasDollars(log[k].tok[5])))
            => \A j \in 1..log[k].children : ChildExpanded(k, j)

(***************************************************************************)
(* sanitize_string twice.                                                  *)
(***************************************************************************)
\* C10 as stated: when sanitize_string succeeds with the result c, it
\* succeeds on c's stored text and returns the same text and lengths
C10_Idempotent ==
    Len(ret) = 2 => (ret[2].ok /\ ret[2].val = ret[1].val)

\* C10: when sanitize_string succeeds with a result c that holds no escape
\* (its stored length is its logical length), it succeeds on c's stored
\* text and returns the same text and lengths
C10_IdempotentPlain ==
    (Len(ret) = 2 /\ ret[1].val.len = ret[1].val.real_len)
        => (ret[2].ok /\ ret[2].val = ret[1].val)

\* an escape that decodes to a plain character: the second call returns
\* what the first did
C10_Witness ==
    /\ Len(ret) = 2
    /\ call.arg = "\\072"
    /\ ret[1] = Ok(String("H", 1, 1))
    /\ ret[2] = ret[1]

(***************************************************************************)
(* The lengths sanitize_string returns.                                    *)
(***************************************************************************)
\* the bytes the logical character at position p of src takes: 1 for a
\* plain byte, 2 for a backslash and a byte, 4 for a backslash and three
\* digits, and 0 when no logical character starts there (a lone backslash
\* or a backslash and a digit not followed by two more digits)
CharBytes(src, p) ==
    IF Ch(src, p) # "\\" THEN 1
    ELSE IF p = Len(src) THEN 0
    ELSE IF ~isdigit(Ch(src, p + 1)) THEN 2
    ELSE IF p + 3 <= Len(src) /\ isdigit(Ch(src, p + 2)) /\ isdigit(Ch(src, p + 3)) THEN 4
    ELSE 0

\* the value of the decimal escape at position p
EscapeValue(src, p) ==
    DigitVal(Ch(src, p + 1)) * 100 + DigitVal(Ch(src, p + 2)) * 10 + DigitVal(Ch(src, p + 3))

\* from position st.p of src with st.n logical characters counted, the
\* count after one more character; n is -1 once src is malformed
LogicalStep(src, st) ==
    IF st.n = -1 \/ st.p > Len(src) THEN st
    ELSE IF CharBytes(src, st.p) = 0 THEN [st EXCEPT !.n = -1]
    ELSE IF CharBytes(src, st.p) = 4 /\ EscapeValue(src, st.p) > 255 THEN [st EXCEPT !.n = -1]
    ELSE [p |-> st.p + CharBytes(src, st.p), n |-> st.n + 1]

RECURSIVE LogicalTimes(_, _, _)
\* k characters on (by halving, to keep the evaluation shallow)
LogicalTimes(src, st, k) ==
    IF k <= 0 \/ st.n = -1 THEN st ELSE IF k = 1 THEN LogicalStep(src, st)
    ELSE LogicalTimes(src, LogicalTimes(src, st, k \div 2), k - k \div 2)

\* the number of logical characters of src, or -1 when src is malformed
Logical(src) == LogicalTimes(src, [p |-> 1, n |-> 0], Len(src)).n

\* the octal escapes of a stored text: every backslash stored starts one
Escapes(text) == Cardinality({k \in 1..Len(text) : Ch(text, k) = "\\"})

\* C11: when sanitize_string succeeds, the logical length it returns is the
\* number of logical characters of the input and at most 255, and the
\* stored length is the logical length plus 3 for every octal escape
\* stored, at most 1020 and the length of the stored text; it fails when
\* the input has more than 255 logical characters, ends in a lone
\* backslash, or holds a decimal escape that is not 3 digits or is above 255
C11_SanitizeLengths ==
    (pc = "call" /\ call.fn = "sanitize_string" /\ Len(ret) >= 1) =>
        /\ ret[1].ok =>
              /\ ret[1].val.len = Logical(call.arg)
              /\ ret[1].val.len <= DOMAIN_LEN
              /\ ret[1].val.real_len = ret[1].val.len + 3 * Escapes(ret[1].val.text)
              /\ ret[1].val.real_len <= 4 * DOMAIN_LEN
              /\ ret[1].val.real_len = Len(ret[1].val.text)
        /\ (Logical(call.arg) = -1 \/ Logical(call.arg) > DOMAIN_LEN) => ~ret[1].ok

\* 255 colons are stored as 255 octal escapes, 1020 bytes; one character
\* more is refused
C11_Witness ==
    /\ pc = "call" /\ call.fn = "sanitize_string" /\ Len(ret) >= 1
    /\ call.arg = Repeat(":", DOMAIN_LEN)
    /\ ret[1].ok
    /\ ret[1].val.len = DOMAIN_LEN
    /\ ret[1].val.real_len = 4 * DOMAIN_LEN

(***************************************************************************)
(* The rule table of qualify_domain.                                       *)
(***************************************************************************)
\* qualify_domain was called and returned
Qualified == pc = "call" /\ call.fn = "qualify_domain" /\ Len(ret) = 1

\* the canonical form of the name of the call
Canon == sanitize_string(call.arg)

\* the canonical text t has an empty label
EmptyLabel(t) ==
    \/ Len(t) > 1 /\ Ch(t, 1) = "."
    \/ \E k \in 1..Len(t) - 1 : Ch(t, k) = "." /\ Ch(t, k + 1) = "."

\* the canonical text t ends in a dot
Absolute(t) == Len(t) > 0 /\ Ch(t, Len(t)) = "."

\* the call returned the string of text t and logical length n
Yields(t, n) == ret[1] = Ok(String(t, n, Len(t)))

\* the rule for a name that is not "@", is not absolute and has no empty
\* label: name.origin, or name. under the root, within DOMAIN_LEN
Relative(c, o) ==
    IF o.len = 0 THEN ~ret[1].ok
    ELSE IF o.text = "." THEN
        IF c.len + 1 > DOMAIN_LEN THEN ~ret[1].ok
        ELSE Yields(c.text \o ".", c.len + 1)
    ELSE IF c.len + 1 + o.len > DOMAIN_LEN THEN ~ret[1].ok
    ELSE Yields(c.text \o "." \o o.text, c.len + 1 + o.len)

\* the rules of the table for the canonical name c and the origin o
RuleTable(c, o) ==
    IF EmptyLabel(c.text) THEN ~ret[1].ok
    ELSE IF c.text = "@" THEN (IF o.len = 0 THEN ~ret[1].ok ELSE ret[1] = Ok(o))
    ELSE IF Absolute(c.text) THEN ret[1] = Ok(c)
    ELSE Relative(c, o)

RECURSIVE DecimalValue(_, _)
\* the decimal value modulo 2^32 of the first n characters of s, all digits
DecimalValue(s, n) ==
    IF n = 0 THEN U32(0)
    ELSE U32Add(U32MulSmall(DecimalValue(s, n - 1), 10), U32(DigitVal(Ch(s, n))))

AllDigits(s) == s # "" /\ \A k \in 1..Len(s) : isdigit(Ch(s, k))

\* the position of the first character of s that is not a digit; 0 if none
FirstLetter(s) == LeastOr0({k \in 1..Len(s) : ~isdigit(Ch(s, k))})

\* x times the seconds of the unit c modulo 2^32
Scale(x, c) ==
    IF      c \in {"w", "W"} THEN U32MulSmall(U32MulSmall(U32MulSmall(x, 7), 24), 3600)
    ELSE IF c \in {"d", "D"} THEN U32MulSmall(U32MulSmall(x, 24), 3600)
    ELSE IF c \in {"h", "H"} THEN U32MulSmall(x, 3600)
    ELSE IF c \in {"m", "M"} THEN U32MulSmall(x, 60)
    ELSE x

RECURSIVE TimeValue(_)
\* the sum of the <decimal><unit> pairs that make up s, or Failed when s
\* is not made of such pairs
TimeValue(s) ==
    IF s = "" THEN Ok(U32(0))
    ELSE IF FirstLetter(s) <= 1 THEN Failed        \* digits left dangling, or a unit without digits
    ELSE IF Ch(s, FirstLetter(s)) \notin {"w", "W", "d", "D", "h", "H", "m", "M", "s", "S"} THEN Failed
    ELSE IF ~TimeValue(From(s, FirstLetter(s) + 1)).ok THEN Failed
    ELSE Ok(U32Add(Scale(DecimalValue(s, FirstLetter(s) - 1), Ch(s, FirstLetter(s))),
                   TimeValue(From(s, FirstLetter(s) + 1)).val))

\* the value of the text s, with the time format or without: Failed for a
\* text that is neither all digits nor, with the time format, made of pairs
UintValue(s, allow_time_fmt) ==
    IF s = "" THEN Failed
    ELSE IF AllDigits(s) THEN Ok(DecimalValue(s, Len(s)))
    ELSE IF ~allow_time_fmt THEN Failed
    ELSE TimeValue(s)

\* C13: str_to_uint returns the decimal value of an all-digit text in either
\* mode, and with the time format the sum of value x unit over its
\* <decimal><unit> pairs (w, d, h, m, s in either case), all modulo 2^32;
\* it fails on the empty text, on any other character without the time
\* format, on a unit letter without digits before it, on a letter that is
\* no unit, and on digits left after the last unit
C13_StrToUint ==
    (pc = "call" /\ call.fn = "str_to_uint" /\ Len(ret) = 1) =>
        ret[1] = UintValue(call.arg, call.allow_time_fmt)

\* 2w1d is 1296000 seconds with the time format
C13_Witness ==
    /\ pc = "call" /\ call.fn = "str_to_uint" /\ Len(ret) = 1
    /\ call.arg = "2w1d"
    /\ call.allow_time_fmt
    /\ ret[1] = Ok(U32(1296000))

(***************************************************************************)
(* The addresses sanitize_ip accepts.                                      *)
(***************************************************************************)
RECURSIVE Split(_)
\* the groups of s between its dots
Split(s) ==
    IF strchr(s, 1, ".") = 0 THEN <<s>>
    ELSE <<Upto(s, strchr(s, 1, ".") - 1)>> \o Split(From(s, strchr(s, 1, ".") + 1))

RECURSIVE NoLeadingZeros(_)
\* the digits of g without its leading zeros, one digit at least
NoLeadingZeros(g) ==
    IF Len(g) > 1 /\ Ch(g, 1) = "0" THEN NoLeadingZeros(From(g, 2)) ELSE g

\* g is a non-empty all-digit group whose decimal value is at most 255
Octet(g) ==
    /\ AllDigits(g)
    /\ Len(NoLeadingZeros(g)) <= 3
    /\ DecimalValue(NoLeadingZeros(g), Len(NoLeadingZeros(g))).lo <= 255

\* s is made of 4 groups that are octets
DottedQuad(s) == Len(Split(s)) = 4 /\ \A k \in 1..4 : Octet(Split(s)[k])

\* C14: sanitize_ip succeeds exactly on the texts made of 4 non-empty
\* all-digit groups separated by 3 dots whose decimal values are at most
\* 255, and then returns the four values joined by dots without leading
\* zeros; every other text is rejected
C14_SanitizeIp ==
    (pc = "call" /\ call.fn = "sanitize_ip" /\ Len(ret) = 1) =>
        ret[1] = IF DottedQuad(call.arg)
                 THEN Ok(NoLeadingZeros(Split(call.arg)[1]) \o "." \o
                         NoLeadingZeros(Split(call.arg)[2]) \o "." \o
                         NoLeadingZeros(Split(call.arg)[3]) \o "." \o
                         NoLeadingZeros(Split(call.arg)[4]))
                 ELSE Failed

(***************************************************************************)
(* The ceilings of the numbers of SOA, MX and SRV records.                 *)
(***************************************************************************)
\* the all-digit text t, as written, is a number above the number written
\* as the all-digit text c without leading zeros
Above(t, c) ==
    \/ Len(NoLeadingZeros(t)) > Len(c)
    \/ /\ Len(NoLeadingZeros(t)) = Len(c)
       /\ \E k \in 1..Len(c) :
            /\ Upto(NoLeadingZeros(t), k - 1) = Upto(c, k - 1)
            /\ DigitVal(Ch(NoLeadingZeros(t), k)) > DigitVal(Ch(c, k))

\* the positions of the numbers among the tokens of a record without TTL
\* and class, and their ceiling
NumberTokens(tok) ==
    IF Len(tok) = 9 /\ tok[2] = "SOA" THEN 5..9
    ELSE IF Len(tok) = 4 /\ tok[2] = "MX" THEN {3}
    ELSE IF Len(tok) = 6 /\ tok[2] = "SRV" THEN {3, 4, 5}
    ELSE {}
Ceiling(tok) == IF tok[2] = "SOA" THEN "2147483646" ELSE "65535"

\* a number of the record e is written above its ceiling
AboveCeiling(e) ==
    \E j \in NumberTokens(e.tok) : AllDigits(e.tok[j]) /\ Above(e.tok[j], Ceiling(e.tok))

\* C15: a record with a number written above its ceiling (2147483646 for
\* the five numbers of SOA, 65535 for the priority of MX and the priority,
\* weight and port of SRV) is fatal and writes no line
C15_NumericCeilings ==
    \A k \in 1..Len(log) :
        AboveCeiling(log[k]) => (log[k].fatal /\ log[k].lines = <<>>)

(***************************************************************************)
(* The token array.                                                        *)
(***************************************************************************)
\* C16: the token count of tokenize is at most 32 in every state, while an
\* entry is scanned and when it is returned, no slot of token beyond the
\* 32 of the array is written, and no entry of more than 32 tokens is
\* handled
C16_TokenBound ==
    /\ tk.num_tokens <= MAX_TOKENS
    /\ num_tokens <= MAX_TOKENS
    /\ Len(token) <= MAX_TOKENS
    /\ \A k \in 1..Len(log) : Len(log[k].tok) <= MAX_TOKENS

(***************************************************************************)
(* Entries longer than the line buffer.                                    *)
(***************************************************************************)
\* what the step read from stdin
Consumed == Upto(stdin, Len(stdin) - Len(stdin'))

\* a pass of tokenize that stops reading inside a physical line, the
\* buffer being full: input is left, and what was read does not end a line
StopsInsideLine ==
    /\ pc = "tokenize"
    /\ stdin' # ""
    /\ Ch(Consumed, Len(Consumed)) # "\n"

\* C17: a pass of tokenize that fills the buffer before the end of the
\* entry's line is fatal with "entry too long": it neither returns what
\* it read as an entry, leaving the rest of the line to be read as the
\* next entry, nor goes round the loop again with the buffer full and a
\* parenthesis open
C17_EntryTooLong ==
    [][StopsInsideLine => err' = Append(err, <<"fatal", "entry too long">>)]_vars

(***************************************************************************)
(* The TTL and class before the type of a record.                          *)
(***************************************************************************)
\* the prefix of the tokens tok of a record: how many tokens after the
\* owner it takes, and the TTL it holds (Failed when it holds none)
PrefixOf(tok) ==
    IF UintValue(tok[2], TRUE).ok
    THEN [len |-> IF StrCaseEq(tok[3], "IN") THEN 2 ELSE 1, ttl |-> UintValue(tok[2], TRUE)]
    ELSE IF StrCaseEq(tok[2], "IN")
        THEN IF UintValue(tok[3], TRUE).ok
             THEN [len |-> 2, ttl |-> UintValue(tok[3], TRUE)]
             ELSE [len |-> 1, ttl |-> Failed]
    ELSE [len |-> 0, ttl |-> Failed]

\* the TTL of the prefix is above 2147483646
OutOfRange(tok) == PrefixOf(tok).ttl.ok /\ U32Gt(PrefixOf(tok).ttl.val, TTL_MAX)

\* the TTL of the record e: that of its prefix, or the default of the time
RecordTtl(e) ==
    IF PrefixOf(e.tok).ttl.ok /\ ~OutOfRange(e.tok) THEN PrefixOf(e.tok).ttl.val ELSE e.ttl

\* the first character of the line of a record of type tag
LineKind(tag) == IF StrCaseEq(tag, "A") THEN "+" ELSE IF StrCaseEq(tag, "NS") THEN "&" ELSE "?"

\* the record e has the type A or NS after its prefix and one token after
\* it, an address or a name, and an owner relative to the origin
PrefixedRecord(e) ==
    /\ IsRecord(e) /\ Len(e.tok) >= 3
    /\ Len(e.tok) = PrefixOf(e.tok).len + 3
    /\ LineKind(e.tok[PrefixOf(e.tok).len + 2]) # "?"
    /\ IF LineKind(e.tok[PrefixOf(e.tok).len + 2]) = "+"
       THEN DottedQuad(e.tok[Len(e.tok)])
       ELSE qualify_domain(e.tok[Len(e.tok)], e.cur_origin).ok
    /\ QualifiesOwner(e) /\ ~Absolute(e.tok[1])

C19_ReadsWithinEntry ==
    /\ ub = FALSE
    /\ \A k \in 1..Len(log) :
          (IsRecord(log[k]) /\ Len(log[k].tok) >= 3 /\ (QualifiesOwner(log[k]) \/ IsBlankOwner(log[k])))
              => PrefixOf(log[k].tok).len + 1 < Len(log[k].tok)

=============================================================================
